---- MODULE Spec2Model ----
(***************************************************************************)
(* State-machine model of the MagicMathGame Vue component                  *)
(* (src/frontend/src/components/MagicMathGame.vue, lines 112-361), and of  *)
(* the MagicPriceGuess and PetNameGame components of the same directory,   *)
(* each of which is mounted by a route of its own.                         *)
(*                                                                         *)
(* JavaScript values are encoded as follows.                               *)
(*   null                  NULL == << >>                                   *)
(*   a non-null value v    << v >>   (so that null and v compare in TLC)   *)
(*   array index           0-based, as in the source; At(a, i) reads a[i]  *)
(*   a card object         its reference: the index of the object in      *)
(*                         Catalogue, the objects the provider can send    *)
(*   a card attribute      a record [t, n, s]: t is the typeof tag, n the  *)
(*                         number (a real, see below), s the string as a   *)
(*                         sequence of chars                               *)
(*   a real number         a reduced fraction [fin, n, d]; fin = FALSE is  *)
(*                         any non-finite double (Infinity, -Infinity, NaN)*)
(***************************************************************************)
EXTENDS Integers, Sequences, FiniteSets, TLC

VARIABLES
    loading,             \* data().loading
    error,               \* data().error: NULL or << message >>
    allCards,            \* data().allCards: sequence of card references
    cardPool,            \* data().cardPool: sequence of card references
    targetNumber,        \* data().targetNumber
    equationStructure,   \* data().equationStructure: sequence of terms
    userSelection,       \* data().userSelection: sequence of NULL | << card >>
    calculatedResult,    \* data().calculatedResult: NULL or << integer >>
    calculationError,    \* data().calculationError: NULL or << message >>
    selectionError,      \* data().selectionError: NULL or << message >>
    selectionErrorIndex, \* data().selectionErrorIndex: NULL or << index >>
    fetching,            \* TRUE while initializeGame is suspended at its await
    priceGame,           \* MagicPriceGuess.vue: the fields of data() as a record
    petGame,             \* PetNameGame.vue: the fields of data() as a record
    last                 \* the call that produced this state and how it ended

round == <<cardPool, targetNumber, equationStructure, userSelection>>
report == <<calculatedResult, calculationError, selectionError, selectionErrorIndex>>
\* the state of the MagicMathGame component
mathGame == <<loading, error, allCards, round, report, fetching>>
\* the components that are not mounted while MagicMathGame is
otherGames == <<priceGame, petGame>>
vars == <<mathGame, priceGame, petGame, last>>

----------------------------------------------------------------------------
(* Bounds of the model *)

\* Math.random is seeded with one of the seeds 0 .. MaxSeed when a round is set up.
MaxSeed == 2

\* The rounds whose generation alone is inspected are seeded with 0 .. MaxGenSeed.
MaxGenSeed == 299
\* PetNameGame: the score up to which guesses are made
MaxScore == 2
\* PetNameGame: the calls of fetchGameBoards that may be in flight at a time
MaxPending == 2
\* PetNameGame: the currentPetIndex up to which Next is clicked
MaxPetIndex == 5

----------------------------------------------------------------------------
(* JavaScript values *)

NULL == << >>

At(a, i) == a[i + 1]

\* typeof value === 'number'; n is a real number
Num(n) == [t |-> "number", n |-> n, s |-> << >>]
\* typeof value === 'string'
Str(s) == [t |-> "string", n |-> 0, s |-> s]
\* the attribute is absent from the JSON object
Undefined == [t |-> "undefined", n |-> 0, s |-> << >>]
\* the attribute is the JSON null
Null == [t |-> "object", n |-> 0, s |-> << >>]

Digits == <<"0", "1", "2", "3", "4", "5", "6", "7", "8", "9">>

IsDigit(c) == \E i \in 1..Len(Digits) : Digits[i] = c

DigitValue(c) == (CHOOSE i \in 1..Len(Digits) : Digits[i] = c) - 1

\* /^\d+$/.test(s)
IsDigitString(s) == Len(s) > 0 /\ \A i \in 1..Len(s) : IsDigit(s[i])

\* parseInt(s, 10) for a string of decimal digits
RECURSIVE parseInt(_)
parseInt(s) ==
    IF Len(s) = 0 THEN 0
    ELSE DigitValue(s[Len(s)]) + 10 * parseInt(SubSeq(s, 1, Len(s) - 1))

\* String.prototype.toUpperCase over the alphabet of the modelled strings
toUpperCase(s) == [i \in 1..Len(s) |-> IF s[i] = "x" THEN "X" ELSE s[i]]

----------------------------------------------------------------------------
(* Real numbers as reduced fractions *)

Abs(x) == IF x < 0 THEN -x ELSE x

RECURSIVE Gcd(_, _)
Gcd(a, b) == IF b = 0 THEN a ELSE Gcd(b, a % b)

NonFinite == [fin |-> FALSE, n |-> 0, d |-> 1]

Frac(n, d) ==
    LET g == Gcd(Abs(n), Abs(d))
        sg == IF d < 0 THEN -1 ELSE 1
    IN  [fin |-> TRUE, n |-> (sg * n) \div g, d |-> (sg * d) \div g]

Whole(n) == Frac(n, 1)

Add(x, y) ==
    IF ~x.fin \/ ~y.fin THEN NonFinite ELSE Frac(x.n * y.d + y.n * x.d, x.d * y.d)

Neg(x) == IF ~x.fin THEN NonFinite ELSE Frac(-x.n, x.d)

Mul(x, y) == IF ~x.fin \/ ~y.fin THEN NonFinite ELSE Frac(x.n * y.n, x.d * y.d)

\* Div with a zero divisor giving zero
DivZeroAsZero(x, y) ==
    IF ~x.fin \/ ~y.fin THEN NonFinite
    ELSE IF y.n = 0 THEN Whole(0)
    ELSE Frac(x.n * y.d, x.d * y.n)

\* IEEE division: x / 0 is Infinity, -Infinity or NaN
Div(x, y) ==
    IF ~x.fin \/ ~y.fin \/ y.n = 0 THEN NonFinite ELSE Frac(x.n * y.d, x.d * y.n)

\* Math.round(x) == floor(x + 0.5)
MathRound(x) == (2 * x.n + x.d) \div (2 * x.d)

----------------------------------------------------------------------------
(* Program constants *)

VALID_NUMERIC_STATS == <<"cmc", "power", "toughness">>
OPERATORS == <<"+", "-", "*", "/">>

\* getRandomSample(this.allCards, 10)
PoolSize == 10
\* this.allCards.length >= 10, this.allCards.length < 10
MinCards == 10
\* Math.floor(Math.random() * 900) + 101
TargetSpan == 900
TargetBase == 101
\* Math.floor(Math.random() * 4) + 2
BlankSpan == 4
BlankBase == 2

----------------------------------------------------------------------------
(* The pool provider: what the daily100 endpoint can answer *)

Card(id, cmc, power, toughness) ==
    [id |-> id, cmc |-> cmc, power |-> power, toughness |-> toughness]

\* A creature: cmc is a JSON number, power and toughness are JSON strings.
Creature(id, cmc, p, t) == Card(id, Num(Whole(cmc)), Str(p), Str(t))
\* A non-creature card: it has no power and no toughness attribute.
Spell(id, cmc) == Card(id, Num(Whole(cmc)), Undefined, Undefined)

Catalogue ==
    << Creature(1, 2, <<"2">>, <<"2">>),
       Creature(2, 0, <<"0">>, <<"2">>),
       Card(3, Undefined, Str(<<"*">>), Str(<<"*">>)),
       Creature(4, 2, <<"*">>, <<"1", "+", "*">>),
       Spell(5, 1),
       Creature(6, 4, <<"3">>, <<"3">>),
       Creature(7, 2, <<"x">>, <<"X">>),
       Spell(8, 2),
       Spell(9, 4),
       Spell(10, 1),
       Spell(11, 0),
       Spell(12, 3),
       \* objects that are in no payload of the endpoint: a cmc that JSON.parse
       \* reads as Infinity (1e999), a fractional and a negative cmc, and
       \* strings that are no plain decimal numbers
       Card(13, Num(NonFinite), Str(<<"1", "2">>), Str(<<"-", "1">>)),
       Card(14, Num(Frac(1, 2)), Str(<<"1", ".", "5">>), Str(<< >>)),
       Card(15, Num(Whole(-1)), Str(<<"x">>), Null),
       Card(16, Null, Str(<<"0", "7">>), Str(<<"2", "x">>)),
       \* two more non-creature cards
       Spell(17, 5),
       Spell(18, 6),
       \* the object with id 6 after its holder has changed it: its cmc is 5
       \* and its toughness is '*'
       Card(6, Num(Whole(5)), Str(<<"3">>), Str(<<"*">>)) >>

\* What a change of the card objects by their holder makes of each object:
\* the object with id 6 becomes the last object of the catalogue.
Changed == [c \in 1..Len(Catalogue) |-> IF c = 6 THEN Len(Catalogue) ELSE c]

\* The daily subset: the first twelve objects of the catalogue, in their order.
FullList == <<1, 2, 3, 4, 5, 6, 7, 8, 9, 10, 11, 12>>

\* A payload with fewer than MinCards usable cards.
ShortList == SubSeq(FullList, 1, 4)

\* A payload of MinCards cards of which one has no usable stat.
PaddedList == SubSeq(FullList, 1, MinCards)

\* A payload in which the JSON object of the sixth card comes twice.
RepeatingList == FullList \o <<FullList[6]>>

\* A payload of MinCards usable cards none of which has a numeric power or
\* toughness: the non-creature cards and the creatures with '*' and 'x'.
PowerlessList == <<4, 5, 7, 8, 9, 10, 11, 12, 17, 18>>

\* fetch() rejects, answers with !response.ok, or answers with a JSON body.
Response(kind, isArray, data) == [kind |-> kind, isArray |-> isArray, data |-> data]

Responses ==
    { Response("reject", FALSE, << >>),
      Response("http", FALSE, << >>),
      Response("json", FALSE, << >>),
      Response("json", TRUE, FullList),
      Response("json", TRUE, ShortList),
      Response("json", TRUE, PaddedList) }

----------------------------------------------------------------------------
(* Math.random: a generator seeded once per setupNewGame *)

Seeds == 0..MaxSeed

GenSeeds == 0..MaxGenSeed

\* A seed whose round has a target that selections of its pool reach, exceed
\* and miss: the template cmc * cmc * toughness * cmc with the target 108.
MatchSeed == 52837

\* the k-th state of the generator, k >= 1
RECURSIVE Lcg(_, _)
Lcg(seed, k) == IF k = 0 THEN seed ELSE (75 * Lcg(seed, k - 1) + 74) % 65537

\* The most draws one setupNewGame makes: one per card for the shuffle, one
\* for the target, one for the number of blanks, one per blank and operator.
MaxDraws == Len(FullList) + 2 + 2 * (BlankBase + BlankSpan - 1) - 1

\* The draws of Math.random for each seed
Streams == [seed \in Seeds \cup GenSeeds \cup {MatchSeed} |-> [k \in 1..MaxDraws |-> Lcg(seed, k)]]

\* Math.floor(m * Math.random()) with Math.random() == x / 65537
Floor(m, x) == (m * x) \div 65537

----------------------------------------------------------------------------
(* Pure methods of the component *)

Range(a) == {a[i] : i \in 1..Len(a)}

\* card[stat]
Attribute(card, stat) ==
    CASE stat = "cmc" -> card.cmc
      [] stat = "power" -> card.power
      [] stat = "toughness" -> card.toughness
      [] OTHER -> Undefined

\* getStatValue(card, stat); card is NULL or << reference >>, the result NULL or
\* << n >> with n a real number
getStatValue(card, stat) ==
    IF card = NULL THEN NULL
    ELSE LET value == Attribute(Catalogue[card[1]], stat)
         IN  IF value.t = "number" THEN <<value.n>>
             ELSE IF value.t = "string"
                  THEN IF IsDigitString(value.s) THEN <<Whole(parseInt(value.s))>>
                       ELSE IF value.s = <<"*">> THEN NULL
                       ELSE IF toUpperCase(value.s) = <<"X">> THEN NULL
                       ELSE NULL
                  ELSE NULL

\* hasAnyValidStat that keeps every card
keepsEveryCard(card) == TRUE

hasAnyValidStat(card) ==
    \E i \in 1..Len(VALID_NUMERIC_STATS) :
        getStatValue(<<card>>, VALID_NUMERIC_STATS[i]) # NULL

\* Shuffle with shuffled[i] = temp left out
RECURSIVE ShuffleOverwriting(_, _, _)
ShuffleOverwriting(shuffled, i, rnd) ==
    IF i < 0 THEN shuffled
    ELSE LET index == Floor(i + 1, rnd[Len(shuffled) - i])
             swapped == [shuffled EXCEPT ![index + 1] = At(shuffled, i)]
         IN  ShuffleOverwriting(swapped, i - 1, rnd)

\* The loop of getRandomSample: i runs from arr.length - 1 down to 0 and the
\* draw for i is the (n - i)-th of the stream.
RECURSIVE Shuffle(_, _, _)
Shuffle(shuffled, i, rnd) ==
    IF i < 0 THEN shuffled
    ELSE LET index == Floor(i + 1, rnd[Len(shuffled) - i])
             swapped == [shuffled EXCEPT ![index + 1] = At(shuffled, i),
                                         ![i + 1] = At(shuffled, index)]
         IN  Shuffle(swapped, i - 1, rnd)

\* shuffled.slice(0, size)
getRandomSample(arr, size, rnd) ==
    LET shuffled == Shuffle(arr, Len(arr) - 1, rnd)
    IN  SubSeq(shuffled, 1, IF size < Len(arr) THEN size ELSE Len(arr))

Blank(stat) == [type |-> "blank", stat |-> stat, value |-> ""]
Operator(value) == [type |-> "operator", stat |-> "", value |-> value]

\* getBlankIndex(equationIndex) on the equation eq
getBlankIndex(eq, equationIndex) ==
    Cardinality({i \in 0..equationIndex : At(eq, i).type = "blank"}) - 1

\* buildEquation with an operator pushed after the last blank too
buildEquationTrailing(numBlanks, rnd, used) ==
    [j \in 1..(2 * numBlanks) |->
        IF j % 2 = 1
        THEN Blank(At(VALID_NUMERIC_STATS, Floor(Len(VALID_NUMERIC_STATS), rnd[used + j])))
        ELSE Operator(At(OPERATORS, Floor(Len(OPERATORS), rnd[used + j])))]

\* The loop of setupNewGame that builds the equation: the draws for blank i and
\* for the operator after it follow the first `used` draws of the stream.
buildEquation(numBlanks, rnd, used) ==
    [j \in 1..(2 * numBlanks - 1) |->
        IF j % 2 = 1
        THEN Blank(At(VALID_NUMERIC_STATS, Floor(Len(VALID_NUMERIC_STATS), rnd[used + j])))
        ELSE Operator(At(OPERATORS, Floor(Len(OPERATORS), rnd[used + j])))]

\* this.cardPool.filter(card => !selectedIds.has(card.id))
withoutIds(pool, selectedIds) ==
    LET unselected(card) == Catalogue[card].id \notin selectedIds
    IN  SelectSeq(pool, unselected)

\* difference without Math.abs
differenceSigned(target, result) == result - target

\* Math.abs(targetNumber - calculatedResult)
difference(target, result) == Abs(target - result)

\* availableCardPool without the filter
availableCardPoolWhole == cardPool

\* computed: availableCardPool
availableCardPool ==
    withoutIds(cardPool,
               {Catalogue[userSelection[i][1]].id :
                    i \in {j \in 1..Len(userSelection) : userSelection[j] # NULL}})

\* isSelectionComplete with some() in place of every()
isSelectionStarted == \E i \in 1..Len(userSelection) : userSelection[i] # NULL

\* computed: isSelectionComplete
isSelectionComplete == \A i \in 1..Len(userSelection) : userSelection[i] # NULL

\* findIndex with the search started from the last slot
findLastIndex(selection) ==
    IF \E i \in 1..Len(selection) : selection[i] = NULL
    THEN (CHOOSE i \in 1..Len(selection) :
              selection[i] = NULL /\ \A j \in (i + 1)..Len(selection) : selection[j] # NULL) - 1
    ELSE -1

\* this.userSelection.findIndex(slot => slot === null)
findIndex(selection) ==
    IF \E i \in 1..Len(selection) : selection[i] = NULL
    THEN (CHOOSE i \in 1..Len(selection) :
              selection[i] = NULL /\ \A j \in 1..(i - 1) : selection[j] # NULL) - 1
    ELSE -1

\* eq.find(callback) from index i on: NULL for undefined, else << item >>,
\* the first item that is a blank with getBlankIndex(index) === blankIndex
RECURSIVE findFrom(_, _, _)
findFrom(eq, i, blankIndex) ==
    IF i >= Len(eq) THEN NULL
    ELSE IF At(eq, i).type = "blank" /\ getBlankIndex(eq, i) = blankIndex
         THEN <<At(eq, i)>>
         ELSE findFrom(eq, i + 1, blankIndex)

\* this.equationStructure.find(item is the blank number blankIndex)
findBlank(eq, blankIndex) == findFrom(eq, 0, blankIndex)

----------------------------------------------------------------------------
(* mathjs evaluate on the expression calculateResultHandler builds *)

Number(n) == [type |-> "number", n |-> n, o |-> ""]
Symbol(o) == [type |-> "operator", n |-> 0, o |-> o]

\* Infix with every operator applied to the value so far, in reading order
RECURSIVE InfixSequential(_, _, _, _)
InfixSequential(e, i, sum, term) ==
    IF i > Len(e) THEN Add(sum, term)
    ELSE LET o == e[i].o
             v == e[i + 1].n
         IN  CASE o = "*" -> InfixSequential(e, i + 2, sum, Mul(term, v))
               [] o = "/" -> InfixSequential(e, i + 2, sum, Div(term, v))
               [] o = "+" -> InfixSequential(e, i + 2, sum, Add(term, v))
               [] OTHER   -> InfixSequential(e, i + 2, sum, Add(term, Neg(v)))

\* Infix evaluation of the tokens from operator position i on: `sum` is the
\* value of the terms already closed, `term` the signed product being built.
RECURSIVE Infix(_, _, _, _)
Infix(e, i, sum, term) ==
    IF i > Len(e) THEN Add(sum, term)
    ELSE LET o == e[i].o
             v == e[i + 1].n
         IN  CASE o = "*" -> Infix(e, i + 2, sum, Mul(term, v))
               [] o = "/" -> Infix(e, i + 2, sum, Div(term, v))
               [] o = "+" -> Infix(e, i + 2, Add(sum, term), v)
               [] OTHER   -> Infix(e, i + 2, Add(sum, term), Neg(v))

\* evaluate(expression.trim()); the empty expression gives undefined, which
\* like a non-finite number fails the typeof/isFinite test on the result.
evaluate(e) == IF Len(e) = 0 THEN NonFinite ELSE Infix(e, 2, Whole(0), e[1].n)

\* expressionOf with 0 taken for a stat value that is null
expressionOfSubstituting(eq, selection) ==
    LET value(i) == getStatValue(At(selection, getBlankIndex(eq, i - 1)), eq[i].stat)
    IN  <<[i \in 1..Len(eq) |->
             IF eq[i].type = "blank"
             THEN Number(IF value(i) = NULL THEN Whole(0) ELSE value(i)[1])
             ELSE Symbol(eq[i].value)]>>

\* The for loop of calculateResultHandler: the tokens, or NULL when a stat
\* value is null (the loop throws).
expressionOf(eq, selection) ==
    LET value(i) == getStatValue(At(selection, getBlankIndex(eq, i - 1)), eq[i].stat)
    IN  IF \E i \in 1..Len(eq) : eq[i].type = "blank" /\ value(i) = NULL
        THEN NULL
        ELSE <<[i \in 1..Len(eq) |->
                  IF eq[i].type = "blank" THEN Number(value(i)[1])
                  ELSE Symbol(eq[i].value)]>>

----------------------------------------------------------------------------
(* data() of the two other components *)

\* MagicPriceGuess.vue: const TOTAL_ROUNDS, MAX_SCORE_PER_ROUND,
\* SLIDER_MAX_DEFAULT, MIN_PRICE_FILTER
TOTAL_ROUNDS == 5
MAX_SCORE_PER_ROUND == 1000
SLIDER_MAX_DEFAULT == 50
MIN_PRICE_FILTER == 1

RECURSIVE Pow10(_)
Pow10(k) == IF k = 0 THEN 1 ELSE 10 * Pow10(k - 1)

\* the decimal digits of the natural number n
RECURSIVE IntToChars(_)
IntToChars(n) ==
    IF n < 10 THEN <<Digits[n + 1]>>
    ELSE IntToChars(n \div 10) \o <<Digits[(n % 10) + 1]>>

\* the last k decimal digits of n, with leading zeros
RECURSIVE FixedDigits(_, _)
FixedDigits(n, k) ==
    IF k = 0 THEN << >> ELSE FixedDigits(n \div 10, k - 1) \o <<Digits[(n % 10) + 1]>>

\* x.toFixed(k) for a finite x >= 0 and k >= 1: x rounded to k decimals
toFixed(x, k) ==
    LET h == (2 * x.n * Pow10(k) + x.d) \div (2 * x.d)
    IN  IntToChars(h \div Pow10(k)) \o <<".">> \o FixedDigits(h % Pow10(k), k)

\* MagicPriceGuess.vue data(), with one field that is not in data():
\* submitted lists the guesses submitted in the current game, each with its
\* round and the score it was given. fetchPricedCards is suspended at its
\* await exactly while gameState is 'fetching'.
MagicPriceGuesserData ==
    [gameState |-> "loading",
     error |-> NULL,
     allPricedCards |-> << >>,
     gameCards |-> << >>,
     currentRound |-> 0,
     totalRounds |-> TOTAL_ROUNDS,
     currentGameCard |-> NULL,
     userGuess |-> toFixed(Frac(SLIDER_MAX_DEFAULT, 2), 2),
     actualPrice |-> Whole(0),
     roundScore |-> Whole(0),
     totalScore |-> Whole(0),
     sliderMax |-> SLIDER_MAX_DEFAULT,
     submitted |-> << >>]

\* PetNameGame.vue data() and guessResult, which loadCurrentPet adds, with
\* two fields that are not in data(): pending counts the fetchGameBoards
\* calls suspended at their await, and gained counts the points given since
\* loadCurrentPet last showed a pet.
PetNameGameData ==
    [score |-> 0,
     currentStreak |-> 0,
     maxStreak |-> 0,
     hasGuessed |-> FALSE,
     feedback |-> "",
     guessResult |-> NULL,
     loading |-> TRUE,
     currentPet |-> NULL,
     nameOptions |-> << >>,
     gameBoards |-> << >>,
     currentBoardIndex |-> 0,
     currentPetIndex |-> 0,
     pending |-> 0,
     gained |-> 0]

----------------------------------------------------------------------------
(* The state after data() and the template's three branches *)

\* A call record: the handler, the card and the index it was about (NULL when
\* it has none) and how it ended ("return" unless said otherwise).
Call(op, card, index, outcome) ==
    [op |-> op, card |-> card, index |-> index, outcome |-> outcome]

Init ==
    /\ loading = TRUE
    /\ error = NULL
    /\ allCards = << >>
    /\ cardPool = << >>
    /\ targetNumber = 0
    /\ equationStructure = << >>
    /\ userSelection = << >>
    /\ calculatedResult = NULL
    /\ calculationError = NULL
    /\ selectionError = NULL
    /\ selectionErrorIndex = NULL
    /\ fetching = FALSE
    /\ priceGame = MagicPriceGuesserData
    /\ petGame = PetNameGameData
    /\ last = Call("data", NULL, NULL, "return")

\* <div v-else-if="error">: the Retry button is rendered
ErrorShown == ~loading /\ error # NULL

\* <div v-else class="game-area">: the round's handlers are rendered
GameShown == ~loading /\ error = NULL

\* The Calculate button: :disabled="!isSelectionComplete || calculatedResult !== null"
calculateDisabled == ~isSelectionComplete \/ calculatedResult # NULL

\* <div v-if="calculatedResult !== null">: the paragraph under the equation
\* that shows the score, NULL when it is not rendered
scoreParagraph ==
    IF ~GameShown \/ calculatedResult = NULL THEN NULL
    ELSE IF calculatedResult[1] = targetNumber
         THEN <<[text |-> "Perfect Match!", result |-> NULL, difference |-> NULL]>>
         ELSE <<[text |-> "Result", result |-> calculatedResult,
                 difference |-> <<difference(targetNumber, calculatedResult[1])>>]>>

----------------------------------------------------------------------------
(* Handlers *)

\* setupNewGame with a slot for every term of the equation:
\* userSelection = Array(equationStructure.length).fill(null)
setupNewGameSlotPerTerm(rnd) ==
    /\ calculatedResult' = NULL
    /\ calculationError' = NULL
    /\ selectionError' = NULL
    /\ selectionErrorIndex' = NULL
    /\ IF Len(allCards') < MinCards
       THEN /\ error' = <<"Cannot start new game: Not enough usable cards loaded.">>
            /\ UNCHANGED round
       ELSE LET n == Len(allCards')
                numBlanks == Floor(BlankSpan, rnd[n + 2]) + BlankBase
            IN  /\ error' = NULL
                /\ cardPool' = getRandomSample(allCards', PoolSize, rnd)
                /\ targetNumber' = Floor(TargetSpan, rnd[n + 1]) + TargetBase
                /\ equationStructure' = buildEquation(numBlanks, rnd, n + 2)
                /\ userSelection' = [i \in 1..Len(equationStructure') |-> NULL]

\* setupNewGame without the reset of selectionError and selectionErrorIndex
setupNewGameKeepingRejection(rnd) ==
    /\ calculatedResult' = NULL
    /\ calculationError' = NULL
    /\ UNCHANGED <<selectionError, selectionErrorIndex>>
    /\ IF Len(allCards') < MinCards
       THEN /\ error' = <<"Cannot start new game: Not enough usable cards loaded.">>
            /\ UNCHANGED round
       ELSE LET n == Len(allCards')
                numBlanks == Floor(BlankSpan, rnd[n + 2]) + BlankBase
            IN  /\ error' = NULL
                /\ cardPool' = getRandomSample(allCards', PoolSize, rnd)
                /\ targetNumber' = Floor(TargetSpan, rnd[n + 1]) + TargetBase
                /\ equationStructure' = buildEquation(numBlanks, rnd, n + 2)
                /\ userSelection' = [i \in 1..numBlanks |-> NULL]

\* setupNewGame() on the current this.allCards (allCards' in the step), with
\* the draws of Math.random given by rnd.
setupNewGame(rnd) ==
    /\ calculatedResult' = NULL
    /\ calculationError' = NULL
    /\ selectionError' = NULL
    /\ selectionErrorIndex' = NULL
    /\ IF Len(allCards') < MinCards
       THEN /\ error' = <<"Cannot start new game: Not enough usable cards loaded.">>
            /\ UNCHANGED round
       ELSE LET n == Len(allCards')
                numBlanks == Floor(BlankSpan, rnd[n + 2]) + BlankBase
            IN  /\ error' = NULL
                /\ cardPool' = getRandomSample(allCards', PoolSize, rnd)
                /\ targetNumber' = Floor(TargetSpan, rnd[n + 1]) + TargetBase
                /\ equationStructure' = buildEquation(numBlanks, rnd, n + 2)
                /\ userSelection' = [i \in 1..numBlanks |-> NULL]

\* The New Game button
newGame(seed) ==
    /\ GameShown
    /\ UNCHANGED <<loading, allCards, fetching>>
    /\ setupNewGame(Streams[seed])
    /\ last' = Call("setupNewGame", NULL, NULL, "return")

\* initializeGame without this.loading = true
initializeGameNotLoading ==
    /\ last.op = "data" \/ ErrorShown
    /\ ~fetching
    /\ error' = NULL
    /\ calculatedResult' = NULL
    /\ calculationError' = NULL
    /\ selectionError' = NULL
    /\ selectionErrorIndex' = NULL
    /\ fetching' = TRUE
    /\ UNCHANGED <<loading, allCards, round>>
    /\ last' = Call("initializeGame", NULL, NULL, "await")

\* initializeGame() up to the await of fetch(): called by mounted() and by Retry
initializeGame ==
    /\ last.op = "data" \/ ErrorShown
    /\ ~fetching
    /\ loading' = TRUE
    /\ error' = NULL
    /\ calculatedResult' = NULL
    /\ calculationError' = NULL
    /\ selectionError' = NULL
    /\ selectionErrorIndex' = NULL
    /\ fetching' = TRUE
    /\ UNCHANGED <<allCards, round>>
    /\ last' = Call("initializeGame", NULL, NULL, "await")

\* fetchDailySubset with a catch that leaves this.allCards as it was
fetchDailySubsetKeeping(r) ==
    LET usable == SelectSeq(r.data, hasAnyValidStat)
    IN  CASE r.kind = "reject" ->
               [allCards |-> allCards, thrown |-> <<"Failed to fetch">>]
          [] r.kind = "http" ->
               [allCards |-> allCards, thrown |-> <<"HTTP error!">>]
          [] r.kind = "json" /\ ~r.isArray ->
               [allCards |-> << >>,
                thrown |-> <<"Invalid data received from daily subset endpoint.">>]
          [] r.kind = "json" /\ r.isArray /\ Len(usable) = 0 ->
               [allCards |-> << >>,
                thrown |-> <<"No cards with usable numeric stats found in the daily subset.">>]
          [] OTHER ->
               [allCards |-> usable, thrown |-> NULL]

\* fetchDailySubset() once fetch has settled with response r: the cards it
\* leaves in this.allCards and the message of the error it throws (NULL if none)
fetchDailySubset(r) ==
    LET usable == SelectSeq(r.data, hasAnyValidStat)
    IN  CASE r.kind = "reject" ->
               [allCards |-> << >>, thrown |-> <<"Failed to fetch">>]
          [] r.kind = "http" ->
               [allCards |-> << >>, thrown |-> <<"HTTP error!">>]
          [] r.kind = "json" /\ ~r.isArray ->
               [allCards |-> << >>,
                thrown |-> <<"Invalid data received from daily subset endpoint.">>]
          [] r.kind = "json" /\ r.isArray /\ Len(usable) = 0 ->
               [allCards |-> << >>,
                thrown |-> <<"No cards with usable numeric stats found in the daily subset.">>]
          [] OTHER ->
               [allCards |-> usable, thrown |-> NULL]

\* fetchSettled with loading reset at the end of the try block, not in finally
fetchSettledNoFinally(r, seed) ==
    LET fetched == fetchDailySubset(r)
    IN  /\ fetching
        /\ fetching' = FALSE
        /\ allCards' = fetched.allCards
        /\ IF fetched.thrown = NULL /\ Len(allCards') >= MinCards
           THEN /\ setupNewGame(Streams[seed])
                /\ loading' = FALSE
                /\ last' = Call("initializeGame", NULL, NULL, "return")
           ELSE /\ error' = IF fetched.thrown # NULL THEN fetched.thrown
                            ELSE <<"Need at least 10 cards with usable stats.">>
                /\ cardPool' = << >>
                /\ equationStructure' = << >>
                /\ userSelection' = << >>
                /\ targetNumber' = 0
                /\ UNCHANGED <<loading, report>>
                /\ last' = Call("initializeGame", NULL, NULL, "caught")

\* fetchSettled without the else branch that throws on fewer than ten cards
fetchSettledSilent(r, seed) ==
    LET fetched == fetchDailySubset(r)
    IN  /\ fetching
        /\ fetching' = FALSE
        /\ allCards' = fetched.allCards
        /\ loading' = FALSE
        /\ IF fetched.thrown = NULL
           THEN /\ IF Len(allCards') >= MinCards
                   THEN setupNewGame(Streams[seed])
                   ELSE UNCHANGED <<error, round, report>>
                /\ last' = Call("initializeGame", NULL, NULL, "return")
           ELSE /\ error' = fetched.thrown
                /\ cardPool' = << >>
                /\ equationStructure' = << >>
                /\ userSelection' = << >>
                /\ targetNumber' = 0
                /\ UNCHANGED report
                /\ last' = Call("initializeGame", NULL, NULL, "caught")

\* initializeGame() from the settlement of fetch() to its end
fetchSettled(r, seed) ==
    LET fetched == fetchDailySubset(r)
    IN  /\ fetching
        /\ fetching' = FALSE
        /\ allCards' = fetched.allCards
        /\ loading' = FALSE
        /\ IF fetched.thrown = NULL /\ Len(allCards') >= MinCards
           THEN /\ setupNewGame(Streams[seed])
                /\ last' = Call("initializeGame", NULL, NULL, "return")
           ELSE /\ error' = IF fetched.thrown # NULL THEN fetched.thrown
                            ELSE <<"Need at least 10 cards with usable stats.">>
                /\ cardPool' = << >>
                /\ equationStructure' = << >>
                /\ userSelection' = << >>
                /\ targetNumber' = 0
                /\ UNCHANGED report
                /\ last' = Call("initializeGame", NULL, NULL, "caught")

\* The stat selectCard requires for the blank number blankIndex: NULL when
\* equationStructure.find gives undefined, else << stat >>
requiredStat(blankIndex) ==
    LET equationItem == findBlank(equationStructure, blankIndex)
    IN  IF equationItem = NULL THEN NULL ELSE <<equationItem[1].stat>>

\* selectOutcome without the test of statValue
selectOutcomeUnchecked(card) ==
    IF findIndex(userSelection) = -1 THEN "full" ELSE "assigned"

\* How selectCard(card) ends: its branches on blankIndex, equationItem and statValue
selectOutcome(card) ==
    LET blankIndex == findIndex(userSelection)
        stat == requiredStat(blankIndex)
    IN  IF blankIndex = -1 THEN "full"
        ELSE IF stat = NULL THEN "no blank"
        ELSE IF getStatValue(<<card>>, stat[1]) = NULL THEN "rejected"
        ELSE "assigned"

\* selectionAfter with the assignment made before the test of statValue
selectionAfterAssignFirst(outcome, blankIndex, card) ==
    IF outcome \in {"assigned", "rejected"}
    THEN [userSelection EXCEPT ![blankIndex + 1] = <<card>>]
    ELSE userSelection

\* this.userSelection when selectCard(card) ends with the given outcome
selectionAfter(outcome, blankIndex, card) ==
    IF outcome = "assigned"
    THEN [userSelection EXCEPT ![blankIndex + 1] = <<card>>]
    ELSE userSelection

\* selectCard with the assigned card also removed from this.cardPool
selectCardTakingFromPool(card) ==
    LET blankIndex == findIndex(userSelection)
        outcome == selectOutcome(card)
    IN  /\ GameShown
        /\ calculatedResult' = NULL
        /\ calculationError' = NULL
        /\ UNCHANGED <<loading, error, allCards, targetNumber,
                       equationStructure, fetching>>
        /\ cardPool' = IF outcome = "assigned"
                       THEN withoutIds(cardPool, {Catalogue[card].id})
                       ELSE cardPool
        /\ userSelection' = selectionAfter(outcome, blankIndex, card)
        /\ IF outcome = "rejected"
           THEN /\ selectionError' = <<[card |-> Catalogue[card].id,
                                        stat |-> requiredStat(blankIndex)[1]]>>
                /\ selectionErrorIndex' = <<blankIndex>>
           ELSE /\ selectionError' = NULL
                /\ selectionErrorIndex' = NULL
        /\ last' = Call("selectCard", <<card>>,
                        IF blankIndex = -1 THEN NULL ELSE <<blankIndex>>, outcome)

\* selectCard(card)
selectCard(card) ==
    LET blankIndex == findIndex(userSelection)
        outcome == selectOutcome(card)
    IN  /\ GameShown
        /\ calculatedResult' = NULL
        /\ calculationError' = NULL
        /\ UNCHANGED <<loading, error, allCards, cardPool, targetNumber,
                       equationStructure, fetching>>
        /\ userSelection' = selectionAfter(outcome, blankIndex, card)
        /\ IF outcome = "rejected"
           THEN /\ selectionError' = <<[card |-> Catalogue[card].id,
                                        stat |-> requiredStat(blankIndex)[1]]>>
                /\ selectionErrorIndex' = <<blankIndex>>
           ELSE /\ selectionError' = NULL
                /\ selectionErrorIndex' = NULL
        /\ last' = Call("selectCard", <<card>>,
                        IF blankIndex = -1 THEN NULL ELSE <<blankIndex>>, outcome)

\* selectionCleared with every slot emptied
selectionClearedAll(selection, blankIndex) ==
    IF blankIndex >= 0 /\ blankIndex < Len(selection)
    THEN [i \in 1..Len(selection) |-> NULL]
    ELSE selection

\* this.userSelection when clearSelection(blankIndex) ends
selectionCleared(selection, blankIndex) ==
    IF blankIndex >= 0 /\ blankIndex < Len(selection)
    THEN [selection EXCEPT ![blankIndex + 1] = NULL]
    ELSE selection

\* clearSelection without the reset of calculatedResult and calculationError
clearSelectionKeepingResult(blankIndex) ==
    /\ GameShown
    /\ UNCHANGED <<loading, error, allCards, cardPool, targetNumber,
                   equationStructure, fetching>>
    /\ IF blankIndex >= 0 /\ blankIndex < Len(userSelection)
       THEN /\ userSelection' = [userSelection EXCEPT ![blankIndex + 1] = NULL]
            /\ UNCHANGED <<calculatedResult, calculationError>>
            /\ selectionError' = NULL
            /\ selectionErrorIndex' = NULL
            /\ last' = Call("clearSelection", At(userSelection, blankIndex),
                            <<blankIndex>>, "return")
       ELSE /\ UNCHANGED <<userSelection, report>>
            /\ last' = Call("clearSelection", NULL, <<blankIndex>>, "return")

\* clearSelection with the resets made only when the slot held a card
clearSelectionOnlyIfHeld(blankIndex) ==
    /\ GameShown
    /\ UNCHANGED <<loading, error, allCards, cardPool, targetNumber,
                   equationStructure, fetching>>
    /\ IF blankIndex >= 0 /\ blankIndex < Len(userSelection)
       THEN /\ IF At(userSelection, blankIndex) # NULL
               THEN /\ userSelection' = [userSelection EXCEPT ![blankIndex + 1] = NULL]
                    /\ calculatedResult' = NULL
                    /\ calculationError' = NULL
                    /\ selectionError' = NULL
                    /\ selectionErrorIndex' = NULL
               ELSE UNCHANGED <<userSelection, report>>
            /\ last' = Call("clearSelection", At(userSelection, blankIndex),
                            <<blankIndex>>, "return")
       ELSE /\ UNCHANGED <<userSelection, report>>
            /\ last' = Call("clearSelection", NULL, <<blankIndex>>, "return")

\* clearSelection without the reset of selectionError and selectionErrorIndex
clearSelectionKeepingRejection(blankIndex) ==
    /\ GameShown
    /\ UNCHANGED <<loading, error, allCards, cardPool, targetNumber,
                   equationStructure, fetching>>
    /\ IF blankIndex >= 0 /\ blankIndex < Len(userSelection)
       THEN /\ userSelection' = selectionCleared(userSelection, blankIndex)
            /\ calculatedResult' = NULL
            /\ calculationError' = NULL
            /\ UNCHANGED <<selectionError, selectionErrorIndex>>
            /\ last' = Call("clearSelection", At(userSelection, blankIndex),
                            <<blankIndex>>, "return")
       ELSE /\ UNCHANGED <<userSelection, report>>
            /\ last' = Call("clearSelection", NULL, <<blankIndex>>, "return")

\* clearSelection(blankIndex); the call record keeps what the slot held
clearSelection(blankIndex) ==
    /\ GameShown
    /\ UNCHANGED <<loading, error, allCards, cardPool, targetNumber,
                   equationStructure, fetching>>
    /\ IF blankIndex >= 0 /\ blankIndex < Len(userSelection)
       THEN /\ userSelection' = selectionCleared(userSelection, blankIndex)
            /\ calculatedResult' = NULL
            /\ calculationError' = NULL
            /\ selectionError' = NULL
            /\ selectionErrorIndex' = NULL
            /\ last' = Call("clearSelection", At(userSelection, blankIndex),
                            <<blankIndex>>, "return")
       ELSE /\ UNCHANGED <<userSelection, report>>
            /\ last' = Call("clearSelection", NULL, <<blankIndex>>, "return")

\* calculateResultHandler with a catch that also empties the slots
calculateResultHandlerResetting ==
    LET expression == expressionOf(equationStructure, userSelection)
        result == evaluate(expression[1])
    IN  /\ GameShown
        /\ UNCHANGED <<loading, error, allCards, cardPool, targetNumber,
                       equationStructure, fetching, selectionError, selectionErrorIndex>>
        /\ IF ~isSelectionComplete
           THEN /\ UNCHANGED <<userSelection, calculatedResult, calculationError>>
                /\ last' = Call("calculateResultHandler", NULL, NULL, "refused")
           ELSE IF expression = NULL
           THEN /\ calculationError' = <<"Invalid stat value">>
                /\ calculatedResult' = NULL
                /\ userSelection' = [i \in 1..Len(userSelection) |-> NULL]
                /\ last' = Call("calculateResultHandler", NULL, NULL, "caught")
           ELSE IF ~result.fin
           THEN /\ calculationError' = <<"Calculation resulted in a non-finite number">>
                /\ calculatedResult' = NULL
                /\ userSelection' = [i \in 1..Len(userSelection) |-> NULL]
                /\ last' = Call("calculateResultHandler", NULL, NULL, "caught")
           ELSE /\ calculationError' = NULL
                /\ calculatedResult' = <<MathRound(result)>>
                /\ UNCHANGED userSelection
                /\ last' = Call("calculateResultHandler", NULL, NULL, "return")

\* calculateResultHandler with the rounded result added to this.calculatedResult
calculateResultHandlerAdding ==
    LET expression == expressionOf(equationStructure, userSelection)
        result == evaluate(expression[1])
        before == IF calculatedResult = NULL THEN 0 ELSE calculatedResult[1]
    IN  /\ GameShown
        /\ UNCHANGED <<loading, error, allCards, round, fetching,
                       selectionError, selectionErrorIndex>>
        /\ IF ~isSelectionComplete
           THEN /\ UNCHANGED <<calculatedResult, calculationError>>
                /\ last' = Call("calculateResultHandler", NULL, NULL, "refused")
           ELSE IF expression = NULL
           THEN /\ calculationError' = <<"Invalid stat value">>
                /\ calculatedResult' = NULL
                /\ last' = Call("calculateResultHandler", NULL, NULL, "caught")
           ELSE IF ~result.fin
           THEN /\ calculationError' = <<"Calculation resulted in a non-finite number">>
                /\ calculatedResult' = NULL
                /\ last' = Call("calculateResultHandler", NULL, NULL, "caught")
           ELSE /\ calculationError' = NULL
                /\ calculatedResult' = <<before + MathRound(result)>>
                /\ last' = Call("calculateResultHandler", NULL, NULL, "return")

\* calculateResultHandler()
calculateResultHandler ==
    LET expression == expressionOf(equationStructure, userSelection)
        result == evaluate(expression[1])
    IN  /\ GameShown
        /\ UNCHANGED <<loading, error, allCards, round, fetching,
                       selectionError, selectionErrorIndex>>
        /\ IF ~isSelectionComplete
           THEN /\ UNCHANGED <<calculatedResult, calculationError>>
                /\ last' = Call("calculateResultHandler", NULL, NULL, "refused")
           ELSE IF expression = NULL
           THEN /\ calculationError' = <<"Invalid stat value">>
                /\ calculatedResult' = NULL
                /\ last' = Call("calculateResultHandler", NULL, NULL, "caught")
           ELSE IF ~result.fin
           THEN /\ calculationError' = <<"Calculation resulted in a non-finite number">>
                /\ calculatedResult' = NULL
                /\ last' = Call("calculateResultHandler", NULL, NULL, "caught")
           ELSE /\ calculationError' = NULL
                /\ calculatedResult' = <<MathRound(result)>>
                /\ last' = Call("calculateResultHandler", NULL, NULL, "return")

----------------------------------------------------------------------------
(* The component driven through its methods: while the game area is shown   *)
(* any card of the pool and any index around the slots may be passed.       *)

Indexes == -1..Len(userSelection)

Next ==
    \/ initializeGame /\ UNCHANGED otherGames
    \/ \E r \in Responses, seed \in Seeds : fetchSettled(r, seed) /\ UNCHANGED otherGames
    \/ \E seed \in Seeds : newGame(seed) /\ UNCHANGED otherGames
    \/ \E card \in Range(cardPool) : selectCard(card) /\ UNCHANGED otherGames
    \/ \E i \in Indexes : clearSelection(i) /\ UNCHANGED otherGames
    \/ calculateResultHandler /\ UNCHANGED otherGames

Spec == Init /\ [][Next]_vars

\* The same component when Math.random is seeded with MatchSeed.
NextMatch ==
    \/ initializeGame /\ UNCHANGED otherGames
    \/ \E r \in Responses : fetchSettled(r, MatchSeed) /\ UNCHANGED otherGames
    \/ newGame(MatchSeed) /\ UNCHANGED otherGames
    \/ \E card \in Range(cardPool) : selectCard(card) /\ UNCHANGED otherGames
    \/ \E i \in Indexes : clearSelection(i) /\ UNCHANGED otherGames
    \/ calculateResultHandler /\ UNCHANGED otherGames

SpecMatch == Init /\ [][NextMatch]_vars

\* The generation of rounds alone: the page is loaded and New Game is pressed
\* again and again, Math.random seeded with any of GenSeeds.
NextGen ==
    \/ initializeGame /\ UNCHANGED otherGames
    \/ \E r \in Responses, seed \in GenSeeds : fetchSettled(r, seed) /\ UNCHANGED otherGames
    \/ \E seed \in GenSeeds : newGame(seed) /\ UNCHANGED otherGames

SpecGen == Init /\ [][NextGen]_vars

\* The component when the card objects, which allCards, cardPool and
\* userSelection share with whoever holds the parsed payload, are changed
\* during a round: every reference to a changed object sees the change.
cardChanged ==
    /\ GameShown
    /\ \E i \in 1..Len(allCards) : Changed[allCards[i]] # allCards[i]
    /\ allCards' = [i \in 1..Len(allCards) |-> Changed[allCards[i]]]
    /\ cardPool' = [i \in 1..Len(cardPool) |-> Changed[cardPool[i]]]
    /\ userSelection' = [i \in 1..Len(userSelection) |->
                            IF userSelection[i] = NULL THEN NULL
                            ELSE <<Changed[userSelection[i][1]]>>]
    /\ UNCHANGED <<loading, error, targetNumber, equationStructure, report, fetching>>
    /\ last' = Call("cardChanged", NULL, NULL, "return")

\* Math.random is seeded with 0 in these rounds: power / power * toughness * cmc.
ChangeSeeds == {0}

NextChange ==
    \/ initializeGame /\ UNCHANGED otherGames
    \/ \E r \in Responses, seed \in ChangeSeeds : fetchSettled(r, seed) /\ UNCHANGED otherGames
    \/ \E seed \in ChangeSeeds : newGame(seed) /\ UNCHANGED otherGames
    \/ \E card \in Range(cardPool) : selectCard(card) /\ UNCHANGED otherGames
    \/ \E i \in Indexes : clearSelection(i) /\ UNCHANGED otherGames
    \/ calculateResultHandler /\ UNCHANGED otherGames
    \/ cardChanged /\ UNCHANGED otherGames

SpecChange == Init /\ [][NextChange]_vars

\* The component when the endpoint answers with !response.ok, with
\* RepeatingList or with PowerlessList, Math.random seeded as in Spec.
Payloads ==
    { Response("http", FALSE, << >>),
      Response("json", TRUE, RepeatingList),
      Response("json", TRUE, PowerlessList) }

NextPayload ==
    \/ initializeGame /\ UNCHANGED otherGames
    \/ \E r \in Payloads, seed \in Seeds : fetchSettled(r, seed) /\ UNCHANGED otherGames
    \/ \E seed \in Seeds : newGame(seed) /\ UNCHANGED otherGames
    \/ \E card \in Range(cardPool) : selectCard(card) /\ UNCHANGED otherGames
    \/ \E i \in Indexes : clearSelection(i) /\ UNCHANGED otherGames
    \/ calculateResultHandler /\ UNCHANGED otherGames

SpecPayload == Init /\ [][NextPayload]_vars

\* The component driven through its template: a click on a card of the
\* Available list, a click on a blank, the Calculate button while it is
\* enabled, New Game and Retry.
BlankIndexes == 0..(Len(userSelection) - 1)

NextTemplate ==
    \/ initializeGame /\ UNCHANGED otherGames
    \/ \E r \in Responses, seed \in Seeds : fetchSettled(r, seed) /\ UNCHANGED otherGames
    \/ \E seed \in Seeds : newGame(seed) /\ UNCHANGED otherGames
    \/ \E card \in Range(availableCardPool) : selectCard(card) /\ UNCHANGED otherGames
    \/ \E i \in BlankIndexes : clearSelection(i) /\ UNCHANGED otherGames
    \/ ~calculateDisabled /\ calculateResultHandler /\ UNCHANGED otherGames

SpecTemplate == Init /\ [][NextTemplate]_vars

\* getStatValue alone: it is called once with any object of the catalogue or
\* null as the card, and with a stat of the game or a key the objects lack.
StatArguments ==
    [card : {NULL} \cup {<<c>> : c \in 1..Len(Catalogue)},
     stat : Range(VALID_NUMERIC_STATS) \cup {"loyalty"}]

StatInit ==
    /\ loading = TRUE
    /\ error = NULL
    /\ allCards = << >>
    /\ cardPool = << >>
    /\ targetNumber = 0
    /\ equationStructure = << >>
    /\ userSelection = << >>
    /\ calculatedResult = NULL
    /\ calculationError = NULL
    /\ selectionError = NULL
    /\ selectionErrorIndex = NULL
    /\ fetching = FALSE
    /\ priceGame = MagicPriceGuesserData
    /\ petGame = PetNameGameData
    /\ last \in {[op |-> "arguments", card |-> a.card, stat |-> a.stat, result |-> NULL] :
                    a \in StatArguments}

callGetStatValue ==
    /\ last.op = "arguments"
    /\ last' = [op |-> "getStatValue", card |-> last.card, stat |-> last.stat,
                result |-> getStatValue(last.card, last.stat)]
    /\ UNCHANGED <<mathGame, otherGames>>

SpecStat == StatInit /\ [][callGetStatValue]_vars

\* SpecGen when every fetch settles: the promise awaited by initializeGame is
\* resolved or rejected, and the continuation is then run by the event loop.
FairGen ==
    SpecGen /\ WF_vars(/\ \E r \in Responses, seed \in GenSeeds : fetchSettled(r, seed)
                       /\ UNCHANGED otherGames)

----------------------------------------------------------------------------
(* MagicPriceGuess.vue: the priced cards the daily1000 endpoint can answer *)

\* A priced card: prices is FALSE when the object has no prices object, usd
\* is the attribute prices.usd. The provider sends decimal numerals; numerals
\* with an exponent and the word Infinity are not among them. On the prices
\* below and the guesses of SliderValues the double arithmetic of
\* calculateScore gives the scores that the fractions give.
PricedCard(id, prices, usd) == [id |-> id, prices |-> prices, usd |-> usd]

PricedCatalogue ==
    << PricedCard(1, TRUE, Str(<<"2", ".", "5", "0">>)),
       PricedCard(2, TRUE, Str(<<"1", "2", ".", "3", "4">>)),
       PricedCard(3, TRUE, Str(<<"4", "0", ".", "0", "0">>)),
       PricedCard(4, TRUE, Str(<<"1", ".", "0", "1">>)),
       PricedCard(5, TRUE, Str(<<"2", "4", ".", "5", "0">>)),
       PricedCard(6, TRUE, Str(<<"3">>)),
       \* not above MIN_PRICE_FILTER
       PricedCard(7, TRUE, Str(<<"1", ".", "0", "0">>)),
       PricedCard(8, TRUE, Str(<<"0", ".", "2", "5">>)),
       \* no price
       PricedCard(9, TRUE, Null),
       PricedCard(10, FALSE, Undefined),
       PricedCard(11, TRUE, Str(<< >>)),
       PricedCard(12, TRUE, Str(<<"f", "o", "i", "l">>)) >>

\* every object, six of them with a price above the filter
PricedList == [i \in 1..Len(PricedCatalogue) |-> i]
\* four objects with a price above the filter
ShortPricedList == <<1, 2, 3, 4, 7, 8, 9, 10, 11, 12>>

PricedResponses ==
    { Response("reject", FALSE, << >>),
      Response("http", FALSE, << >>),
      Response("json", FALSE, << >>),
      Response("json", TRUE, PricedList),
      Response("json", TRUE, ShortPricedList) }

\* what the range input can hand to v-model
SliderValues ==
    { <<"0">>,
      <<"2", ".", "5">>,
      <<"1", "2", ".", "3", "5">>,
      <<"6", "0">> }

----------------------------------------------------------------------------
(* MagicPriceGuess.vue: pure methods *)

\* x < y on doubles: FALSE when either is NaN
LessThan(x, y) == x.fin /\ y.fin /\ x.n * y.d < y.n * x.d

AbsReal(x) == IF ~x.fin THEN NonFinite ELSE Frac(Abs(x.n), x.d)

\* Math.ceil of a finite x
MathCeil(x) == -((-x.n) \div x.d)

\* the number of digits of s from position i on
RECURSIVE DigitRun(_, _)
DigitRun(s, i) ==
    IF i <= Len(s) /\ IsDigit(s[i]) THEN 1 + DigitRun(s, i + 1) ELSE 0

\* the natural number written by the k digits of s from position i on
RECURSIVE NaturalOf(_, _, _)
NaturalOf(s, i, k) ==
    IF k = 0 THEN 0
    ELSE 10 * NaturalOf(s, i, k - 1) + DigitValue(s[i + k - 1])

\* the position of the first char of s that is not a space, from i on
RECURSIVE SkipSpaces(_, _)
SkipSpaces(s, i) ==
    IF i <= Len(s) /\ s[i] = " " THEN SkipSpaces(s, i + 1) ELSE i

\* parseFloat(s) of a string without exponent: the longest prefix that is a
\* decimal numeral, NaN (NonFinite) when there is none
parseFloat(s) ==
    LET start == SkipSpaces(s, 1)
        signed == start <= Len(s) /\ s[start] \in {"-", "+"}
        i == IF signed THEN start + 1 ELSE start
        k == DigitRun(s, i)
        hasDot == i + k <= Len(s) /\ s[i + k] = "."
        m == IF hasDot THEN DigitRun(s, i + k + 1) ELSE 0
        mag == Frac(NaturalOf(s, i, k) * Pow10(m) + NaturalOf(s, i + k + 1, m),
                    Pow10(m))
    IN  IF k = 0 /\ m = 0 THEN NonFinite
        ELSE IF signed /\ s[start] = "-" THEN Neg(mag) ELSE mag

\* getUsdPrice(card): NULL for null, <<price>> otherwise
getUsdPrice(card) ==
    LET c == PricedCatalogue[card]
        truthy == c.prices /\ c.usd.t = "string" /\ Len(c.usd.s) > 0
    IN  IF truthy
        THEN (IF ~parseFloat(c.usd.s).fin THEN NULL ELSE <<parseFloat(c.usd.s)>>)
        ELSE NULL

\* calculateScore without Math.max
calculateScoreUnclamped(guess, actual) ==
    IF ~LessThan(Whole(0), actual) /\ actual.fin THEN Whole(0)
    ELSE LET distance == AbsReal(Add(guess, Neg(actual)))
             penaltyFactor == Whole(50)
             score == Add(Whole(MAX_SCORE_PER_ROUND), Neg(Mul(distance, penaltyFactor)))
         IN  IF ~score.fin THEN NonFinite ELSE Whole(MathRound(score))

calculateScore(guess, actual) ==
    IF ~LessThan(Whole(0), actual) /\ actual.fin THEN Whole(0)
    ELSE LET distance == AbsReal(Add(guess, Neg(actual)))
             penaltyFactor == Whole(50)
             score == Add(Whole(MAX_SCORE_PER_ROUND), Neg(Mul(distance, penaltyFactor)))
         IN  IF ~score.fin THEN NonFinite
             ELSE IF MathRound(score) < 0 THEN Whole(0) ELSE Whole(MathRound(score))

\* the price filter of fetchPricedCards
aboveMinPrice(card) ==
    getUsdPrice(card) # NULL /\ LessThan(Whole(MIN_PRICE_FILTER), getUsdPrice(card)[1])

\* setupRound() on the component state g
setupRound(g) ==
    IF g.currentRound >= Len(g.gameCards) THEN [g EXCEPT !.gameState = "gameOver"]
    ELSE LET card == At(g.gameCards, g.currentRound)
             price == getUsdPrice(card)[1]
             scaled == MathCeil(Mul(price, Frac(3, 2)))
             max == IF scaled > SLIDER_MAX_DEFAULT THEN scaled ELSE SLIDER_MAX_DEFAULT
         IN  [g EXCEPT !.currentGameCard = <<card>>,
                       !.actualPrice = price,
                       !.roundScore = Whole(0),
                       !.sliderMax = max,
                       !.userGuess = toFixed(Frac(max, 2), 2),
                       !.gameState = "guessing"]

\* startNewGame() on the component state g, Math.random giving rnd
startNewGameOn(g, rnd) ==
    setupRound([g EXCEPT !.totalScore = Whole(0),
                         !.currentRound = 0,
                         !.gameCards = getRandomSample(g.allPricedCards, TOTAL_ROUNDS, rnd),
                         !.submitted = << >>])

----------------------------------------------------------------------------
(* MagicPriceGuess.vue: handlers *)

\* initializeGame() up to the await of fetchPricedCards: called by mounted()
\* and by Retry
priceInitializeGame ==
    /\ last.op = "data" \/ priceGame.gameState = "error"
    /\ priceGame' = [priceGame EXCEPT !.gameState = "fetching", !.error = NULL]
    /\ UNCHANGED <<mathGame, petGame>>
    /\ last' = Call("priceInitializeGame", NULL, NULL, "await")

\* fetchPricedCards() from the await on, the endpoint answering r
fetchPricedCards(r, seed) ==
    /\ priceGame.gameState = "fetching"
    /\ \E kept \in {SelectSeq(r.data, aboveMinPrice)} :
         CASE r.kind = "reject" ->
                /\ priceGame' = [priceGame EXCEPT !.error = <<"Failed to fetch">>,
                                                  !.gameState = "error"]
                /\ last' = Call("fetchPricedCards", NULL, NULL, "catch")
           [] r.kind = "http" ->
                /\ priceGame' = [priceGame EXCEPT !.error = <<"HTTP error!">>,
                                                  !.gameState = "error"]
                /\ last' = Call("fetchPricedCards", NULL, NULL, "catch")
           [] r.kind = "json" /\ ~r.isArray ->
                /\ priceGame' =
                     [priceGame EXCEPT
                        !.error = <<"Invalid data received from the card endpoint.">>,
                        !.gameState = "error"]
                /\ last' = Call("fetchPricedCards", NULL, NULL, "catch")
           [] r.kind = "json" /\ r.isArray /\ Len(kept) < TOTAL_ROUNDS ->
                /\ priceGame' = [priceGame EXCEPT !.allPricedCards = kept,
                                                  !.error = <<"Not enough cards">>,
                                                  !.gameState = "error"]
                /\ last' = Call("fetchPricedCards", NULL, NULL, "catch")
           [] OTHER ->
                /\ priceGame' = startNewGameOn([priceGame EXCEPT !.allPricedCards = kept],
                                               Streams[seed])
                /\ last' = Call("fetchPricedCards", NULL, NULL, "return")
    /\ UNCHANGED <<mathGame, petGame>>

\* Play Again: startNewGame()
startNewGame(seed) ==
    /\ priceGame.gameState = "gameOver"
    /\ priceGame' = startNewGameOn(priceGame, Streams[seed])
    /\ UNCHANGED <<mathGame, petGame>>
    /\ last' = Call("startNewGame", NULL, NULL, "return")

\* the range input writing its value to userGuess
slide(value) ==
    /\ priceGame.gameState = "guessing"
    /\ ~LessThan(Whole(priceGame.sliderMax), parseFloat(value))
    /\ priceGame' = [priceGame EXCEPT !.userGuess = value]
    /\ UNCHANGED <<mathGame, petGame>>
    /\ last' = Call("slide", NULL, NULL, "return")

\* submitGuess without its first line
submitGuessUnguarded ==
    /\ last.op # "data"
    /\ \E score \in {calculateScore(parseFloat(priceGame.userGuess),
                                    priceGame.actualPrice)} :
         priceGame' =
           [priceGame EXCEPT
              !.roundScore = score,
              !.totalScore = Add(priceGame.totalScore, score),
              !.gameState = "result",
              !.submitted = Append(priceGame.submitted,
                                   [round |-> priceGame.currentRound, score |-> score])]
    /\ last' = Call("submitGuess", NULL, NULL, "scored")
    /\ UNCHANGED <<mathGame, petGame>>

\* submitGuess(), in any state of the mounted component
submitGuess ==
    /\ last.op # "data"
    /\ IF priceGame.gameState # "guessing"
       THEN /\ UNCHANGED priceGame
            /\ last' = Call("submitGuess", NULL, NULL, "return")
       ELSE /\ \E score \in {calculateScore(parseFloat(priceGame.userGuess),
                                            priceGame.actualPrice)} :
                 priceGame' =
                   [priceGame EXCEPT
                      !.roundScore = score,
                      !.totalScore = Add(priceGame.totalScore, score),
                      !.gameState = "result",
                      !.submitted = Append(priceGame.submitted,
                                           [round |-> priceGame.currentRound,
                                            score |-> score])]
            /\ last' = Call("submitGuess", NULL, NULL, "scored")
    /\ UNCHANGED <<mathGame, petGame>>

\* nextRound(), in any state of the mounted component
nextRound ==
    /\ last.op # "data"
    /\ IF priceGame.gameState # "result"
       THEN /\ UNCHANGED priceGame
            /\ last' = Call("nextRound", NULL, NULL, "return")
       ELSE /\ \E g \in {[priceGame EXCEPT !.currentRound = priceGame.currentRound + 1]} :
                 priceGame' = IF g.currentRound < TOTAL_ROUNDS
                              THEN setupRound(g)
                              ELSE [g EXCEPT !.gameState = "gameOver"]
            /\ last' = Call("nextRound", NULL, NULL, "advanced")
    /\ UNCHANGED <<mathGame, petGame>>

\* The component mounted by its route: its handlers in any order.
NextPrice ==
    \/ priceInitializeGame
    \/ \E r \in PricedResponses, seed \in Seeds : fetchPricedCards(r, seed)
    \/ \E seed \in Seeds : startNewGame(seed)
    \/ \E value \in SliderValues : slide(value)
    \/ submitGuess
    \/ nextRound

SpecPrice == Init /\ [][NextPrice]_vars

----------------------------------------------------------------------------
(* PetNameGame.vue: what the game_boards endpoint can answer *)

\* A pet object: name is NULL when the object has no name, <<chars>> otherwise
Pet(name) == [name |-> name]

PetCatalogue ==
    <<
       Pet(<<<<"M", "a", "x">>>>),
       \* the same name after cleaning
       Pet(<<<<"M", "a", "x", " ", "-", " ", "A", "d", "o", "p", "t", " ", "m", "e">>>>),
       Pet(<<<<"*", "B", "e", "l", "l", "a", " ", "(", "s", "e", "e", " ", "d", "e", "s", "c", ".", ")">>>>),
       Pet(<<<<"L", "u", "n", "a", "!", "!">>>>),
       \* no name
       Pet(NULL),
       \* a name that cleaning empties
       Pet(<<<<"(", "A", "1", "2", "3", ")">>>>),
       Pet(<<<<"R", "e", "x", " ", " ", "I", "I">>>>),
       Pet(<<<<"C", "o", "o", "p", "e", "r", " ", "/", " ", "C", "o", "o", "p">>>>) >>

\* A board: game_board is NULL when the board has none, otherwise <<pets>>,
\* the array of the references of its pets
Board(pets) == [game_board |-> <<pets>>]
BoardWithoutPets == [game_board |-> NULL]

FullBoards == <<Board(<<1, 2, 3>>), Board(<<4, 5, 6, 7, 8>>)>>
\* no other name than the shown pet's
FewBoards == <<Board(<<1, 2>>)>>
\* the last board is empty
TailBoards == <<Board(<<3>>), Board(<< >>)>>
\* no board has a pet
UnloadableBoards == <<Board(<< >>), BoardWithoutPets>>

\* kind "reject": fetch() or response.json() rejects; otherwise data is data.data
PetResponse(kind, data) == [kind |-> kind, data |-> data]

PetResponses ==
    { PetResponse("reject", << >>),
      PetResponse("json", << >>),
      PetResponse("json", FullBoards),
      PetResponse("json", FewBoards),
      PetResponse("json", TailBoards),
      PetResponse("json", UnloadableBoards) }

----------------------------------------------------------------------------
(* PetNameGame.vue: pure methods *)

Letters ==
    { "a", "b", "c", "d", "e", "f", "g", "h", "i", "j", "k", "l", "m", 
      "n", "o", "p", "q", "r", "s", "t", "u", "v", "w", "x", "y", "z",
      "A", "B", "C", "D", "E", "F", "G", "H", "I", "J", "K", "L", "M", 
      "N", "O", "P", "Q", "R", "S", "T", "U", "V", "W", "X", "Y", "Z" }

\* [a-zA-Z0-9]
IsAlphaNumeric(c) == c \in Letters \/ IsDigit(c)
\* \s
IsWhitespace(c) == c \in {" ", "\t"}

\* name.split(' - ')[0]
FirstPart(s) ==
    LET hits == {i \in 1..(Len(s) - 2) : s[i] = " " /\ s[i + 1] = "-" /\ s[i + 2] = " "}
    IN  IF hits = {} THEN s
        ELSE SubSeq(s, 1, (CHOOSE i \in hits : \A j \in hits : i <= j) - 1)

\* replace(/\(.*?\)/g, '') from position i on
RECURSIVE RemoveGroups(_, _)
RemoveGroups(s, i) ==
    LET closers == {j \in (i + 1)..Len(s) : s[j] = ")"}
    IN  IF i > Len(s) THEN << >>
        ELSE IF s[i] = "(" /\ closers # {}
        THEN RemoveGroups(s, (CHOOSE j \in closers : \A k \in closers : j <= k) + 1)
        ELSE <<s[i]>> \o RemoveGroups(s, i + 1)

\* the length of the run of chars that are not alphanumeric at the start of s
RECURSIVE LeadingRun(_, _)
LeadingRun(s, i) ==
    IF i <= Len(s) /\ ~IsAlphaNumeric(s[i]) THEN 1 + LeadingRun(s, i + 1) ELSE 0

\* the length of the run of chars that are neither alphanumeric nor
\* whitespace at the end of s
RECURSIVE TrailingRun(_, _)
TrailingRun(s, i) ==
    IF i >= 1 /\ ~IsAlphaNumeric(s[i]) /\ ~IsWhitespace(s[i])
    THEN 1 + TrailingRun(s, i - 1) ELSE 0

\* replace(/^[^a-zA-Z0-9]+|[^a-zA-Z0-9\s]+$/g, '')
StripEnds(s) ==
    LET t == SubSeq(s, LeadingRun(s, 1) + 1, Len(s))
    IN  SubSeq(t, 1, Len(t) - TrailingRun(t, Len(t)))

\* replace(/[*\\/]/g, '')
IsWanted(c) == c \notin {"*", "\\", "/"}

\* replace(/\s+/g, ' ') from position i on
RECURSIVE CollapseSpaces(_, _)
CollapseSpaces(s, i) ==
    IF i > Len(s) THEN << >>
    ELSE IF IsWhitespace(s[i])
    THEN (IF i > 1 /\ IsWhitespace(s[i - 1]) THEN << >> ELSE <<" ">>)
         \o CollapseSpaces(s, i + 1)
    ELSE <<s[i]>> \o CollapseSpaces(s, i + 1)

\* trim()
RECURSIVE Trim(_)
Trim(s) ==
    IF Len(s) > 0 /\ IsWhitespace(s[1]) THEN Trim(Tail(s))
    ELSE IF Len(s) > 0 /\ IsWhitespace(s[Len(s)]) THEN Trim(SubSeq(s, 1, Len(s) - 1))
    ELSE s

\* cleanPetName(name), name being NULL or <<chars>>
cleanPetName(name) ==
    IF name = NULL \/ Len(name[1]) = 0 THEN << >>
    ELSE Trim(CollapseSpaces(
             SelectSeq(StripEnds(RemoveGroups(FirstPart(name[1]), 1)), IsWanted), 1))

\* cleanPetName(pet.name) of every pet object
cleanedNameOf == [pet \in 1..Len(PetCatalogue) |-> cleanPetName(PetCatalogue[pet].name)]

commonPetNames ==
    << <<"M", "a", "x">>,
       <<"B", "e", "l", "l", "a">>,
       <<"L", "u", "n", "a">>,
       <<"C", "h", "a", "r", "l", "i", "e">>,
       <<"L", "u", "c", "y">>,
       <<"C", "o", "o", "p", "e", "r">>,
       <<"B", "a", "i", "l", "e", "y">>,
       <<"D", "a", "i", "s", "y">>,
       <<"S", "a", "d", "i", "e">>,
       <<"L", "o", "l", "a">>,
       <<"B", "u", "d", "d", "y">>,
       <<"M", "o", "l", "l", "y">>,
       <<"S", "t", "e", "l", "l", "a">>,
       <<"T", "u", "c", "k", "e", "r">>,
       <<"B", "e", "n", "t", "l", "e", "y">>,
       <<"Z", "o", "e", "y">>,
       <<"H", "a", "r", "l", "e", "y">>,
       <<"R", "o", "c", "k", "y">> >>

\* the pets of all boards that have a game_board, in the order of forEach
RECURSIVE PetsOfBoards(_)
PetsOfBoards(boards) ==
    IF Len(boards) = 0 THEN << >>
    ELSE (IF Head(boards).game_board = NULL THEN << >> ELSE Head(boards).game_board[1])
         \o PetsOfBoards(Tail(boards))

\* Array.from(names) after the names of pets were added to the Set in order
RECURSIVE NamesInOrder(_, _, _)
NamesInOrder(pets, current, names) ==
    IF Len(pets) = 0 THEN names
    ELSE LET raw == PetCatalogue[Head(pets)].name
             cleanedName == cleanedNameOf[Head(pets)]
             added == /\ raw # NULL
                      /\ Len(raw[1]) > 0
                      /\ Len(cleanedName) > 0
                      /\ (current = NULL \/ cleanedName # current[1].name)
                      /\ cleanedName \notin Range(names)
         IN  NamesInOrder(Tail(pets), current,
                          IF added THEN Append(names, cleanedName) ELSE names)

\* getAllPetNames() on the component state g
getAllPetNames(g) == NamesInOrder(PetsOfBoards(g.gameBoards), g.currentPet, << >>)

\* allPetNames.splice(index, 1)
Splice(a, index) == SubSeq(a, 1, index) \o SubSeq(a, index + 2, Len(a))

\* the first loop of generateNameOptions pushing every name it draws
RECURSIVE DrawOtherNamesUnchecked(_, _, _, _, _)
DrawOtherNamesUnchecked(options, allPetNames, correct, seed, k) ==
    IF Len(options) < 4 /\ Len(allPetNames) > 0
    THEN LET randomIndex == Floor(Len(allPetNames), Lcg(seed, k))
             randomName == At(allPetNames, randomIndex)
         IN  DrawOtherNamesUnchecked(Append(options, randomName),
                                     Splice(allPetNames, randomIndex), correct, seed, k + 1)
    ELSE [options |-> options, k |-> k]

\* the first loop of generateNameOptions, Math.random giving Lcg(seed, k),
\* Lcg(seed, k + 1), ...; the result holds the options and the next k
RECURSIVE DrawOtherNames(_, _, _, _, _)
DrawOtherNames(options, allPetNames, correct, seed, k) ==
    IF Len(options) < 4 /\ Len(allPetNames) > 0
    THEN LET randomIndex == Floor(Len(allPetNames), Lcg(seed, k))
             randomName == At(allPetNames, randomIndex)
             pushed == randomName \notin Range(options) /\ randomName # correct
         IN  DrawOtherNames(IF pushed THEN Append(options, randomName) ELSE options,
                            Splice(allPetNames, randomIndex), correct, seed, k + 1)
    ELSE [options |-> options, k |-> k]

\* the second loop of generateNameOptions pushing every name it draws
RECURSIVE DrawCommonNamesUnchecked(_, _, _)
DrawCommonNamesUnchecked(options, seed, k) ==
    IF Len(options) < 4
    THEN LET randomName == At(commonPetNames, Floor(Len(commonPetNames), Lcg(seed, k)))
         IN  DrawCommonNamesUnchecked(Append(options, randomName), seed, k + 1)
    ELSE [options |-> options, k |-> k]

\* the second loop of generateNameOptions
RECURSIVE DrawCommonNames(_, _, _)
DrawCommonNames(options, seed, k) ==
    IF Len(options) < 4
    THEN LET randomName == At(commonPetNames, Floor(Len(commonPetNames), Lcg(seed, k)))
         IN  DrawCommonNames(IF randomName \notin Range(options)
                             THEN Append(options, randomName) ELSE options,
                             seed, k + 1)
    ELSE [options |-> options, k |-> k]

\* the loop of shuffleArray from i down to 1
RECURSIVE ShuffleFrom(_, _, _, _)
ShuffleFrom(newArray, i, seed, k) ==
    IF i > 0
    THEN LET j == Floor(i + 1, Lcg(seed, k))
         IN  ShuffleFrom([newArray EXCEPT ![i + 1] = At(newArray, j),
                                          ![j + 1] = At(newArray, i)],
                         i - 1, seed, k + 1)
    ELSE newArray

shuffleArray(array, seed, k) == ShuffleFrom(array, Len(array) - 1, seed, k)

\* generateNameOptions without the checks before options.push
generateNameOptionsUnchecked(g, seed) ==
    LET correctCleanedName == g.currentPet[1].name
        others == DrawOtherNamesUnchecked(<<correctCleanedName>>, getAllPetNames(g),
                                          correctCleanedName, seed, 1)
        filled == DrawCommonNamesUnchecked(others.options, seed, others.k)
    IN  IF g.currentPet = NULL THEN g
        ELSE [g EXCEPT !.nameOptions = shuffleArray(filled.options, seed, filled.k)]

\* generateNameOptions() on the component state g
generateNameOptions(g, seed) ==
    LET correctCleanedName == g.currentPet[1].name
        others == DrawOtherNames(<<correctCleanedName>>, getAllPetNames(g),
                                 correctCleanedName, seed, 1)
        filled == DrawCommonNames(others.options, seed, others.k)
    IN  IF g.currentPet = NULL THEN g
        ELSE [g EXCEPT !.nameOptions = shuffleArray(filled.options, seed, filled.k)]

\* fetchGameBoards() up to the await of fetch(), on the component state g
fetchGameBoardsOn(g) ==
    [g EXCEPT !.loading = TRUE, !.feedback = "", !.pending = g.pending + 1]

\* loadCurrentPet() that resets hasGuessed only when it shows a pet
RECURSIVE loadCurrentPetKeepingGuess(_, _)
loadCurrentPetKeepingGuess(g, seed) ==
    LET reset == [g EXCEPT !.loading = TRUE, !.feedback = "", !.guessResult = NULL]
        hasBoard == /\ reset.currentBoardIndex < Len(reset.gameBoards)
                    /\ At(reset.gameBoards, reset.currentBoardIndex).game_board # NULL
        pets == At(reset.gameBoards, reset.currentBoardIndex).game_board[1]
        hasPet == reset.currentPetIndex < Len(pets)
        pet == At(pets, reset.currentPetIndex)
    IN  IF ~hasBoard THEN fetchGameBoardsOn(reset)
        ELSE IF ~hasPet
        THEN (IF reset.currentBoardIndex < Len(reset.gameBoards) - 1
              THEN loadCurrentPetKeepingGuess(
                       [reset EXCEPT !.currentBoardIndex = reset.currentBoardIndex + 1,
                                     !.currentPetIndex = 0], seed)
              ELSE fetchGameBoardsOn(reset))
        ELSE [generateNameOptions(
                  [reset EXCEPT !.currentPet =
                                    <<[ref |-> pet,
                                       name |-> cleanedNameOf[pet]]>>,
                                !.hasGuessed = FALSE,
                                !.gained = 0], seed)
              EXCEPT !.loading = FALSE]

\* loadCurrentPet() on the component state g
RECURSIVE loadCurrentPet(_, _)
loadCurrentPet(g, seed) ==
    LET reset == [g EXCEPT !.loading = TRUE, !.hasGuessed = FALSE, !.feedback = "",
                           !.guessResult = NULL]
        hasBoard == /\ reset.currentBoardIndex < Len(reset.gameBoards)
                    /\ At(reset.gameBoards, reset.currentBoardIndex).game_board # NULL
        pets == At(reset.gameBoards, reset.currentBoardIndex).game_board[1]
        hasPet == reset.currentPetIndex < Len(pets)
        pet == At(pets, reset.currentPetIndex)
    IN  IF ~hasBoard THEN fetchGameBoardsOn(reset)
        ELSE IF ~hasPet
        THEN (IF reset.currentBoardIndex < Len(reset.gameBoards) - 1
              THEN loadCurrentPet(
                       [reset EXCEPT !.currentBoardIndex = reset.currentBoardIndex + 1,
                                     !.currentPetIndex = 0], seed)
              ELSE fetchGameBoardsOn(reset))
        ELSE [generateNameOptions(
                  [reset EXCEPT !.currentPet =
                                    <<[ref |-> pet,
                                       name |-> cleanedNameOf[pet]]>>,
                                !.gained = 0], seed)
              EXCEPT !.loading = FALSE]

----------------------------------------------------------------------------
(* PetNameGame.vue: handlers *)

\* mounted(): fetchGameBoards() up to the await of fetch()
fetchGameBoards ==
    /\ last.op = "data"
    /\ petGame' = fetchGameBoardsOn(petGame)
    /\ UNCHANGED <<mathGame, priceGame>>
    /\ last' = Call("fetchGameBoards", NULL, NULL, "await")

\* fetchGameBoards() from the await on, for one of the calls in flight, the
\* endpoint answering r
fetchGameBoardsSettled(r, seed) ==
    /\ petGame.pending > 0
    /\ \E g \in {[petGame EXCEPT !.pending = petGame.pending - 1]} :
         CASE r.kind = "reject" ->
                /\ petGame' = [g EXCEPT !.feedback = "Error loading pets. Please try again later.",
                                        !.loading = FALSE]
                /\ last' = Call("fetchGameBoards", NULL, NULL, "catch")
           [] r.kind = "json" /\ Len(r.data) = 0 ->
                /\ petGame' =
                     [g EXCEPT !.feedback = "No pets found with the current filters. Please try different options.",
                               !.loading = FALSE]
                /\ last' = Call("fetchGameBoards", NULL, NULL, "empty")
           [] OTHER ->
                /\ petGame' = loadCurrentPet([g EXCEPT !.gameBoards = r.data,
                                                       !.currentBoardIndex = 0,
                                                       !.currentPetIndex = 0], seed)
                /\ last' = Call("fetchGameBoards", NULL, NULL,
                                IF petGame'.pending > g.pending THEN "await" ELSE "loaded")
    /\ UNCHANGED <<mathGame, priceGame>>

\* a click on an option button, which is disabled when hasGuessed: makeGuess(name)
makeGuess(name) ==
    /\ ~petGame.hasGuessed
    /\ petGame.score < MaxScore
    /\ IF petGame.currentPet = NULL
       THEN /\ UNCHANGED petGame
            /\ last' = Call("makeGuess", NULL, NULL, "return")
       ELSE IF name = petGame.currentPet[1].name
       THEN /\ petGame' =
                 [petGame EXCEPT
                    !.hasGuessed = TRUE,
                    !.feedback = "Correct!",
                    !.guessResult = <<"correct">>,
                    !.score = petGame.score + 1,
                    !.currentStreak = petGame.currentStreak + 1,
                    !.maxStreak = IF petGame.currentStreak + 1 > petGame.maxStreak
                                  THEN petGame.currentStreak + 1 ELSE petGame.maxStreak,
                    !.gained = petGame.gained + 1]
            /\ last' = Call("makeGuess", NULL, NULL, "correct")
       ELSE /\ petGame' = [petGame EXCEPT !.hasGuessed = TRUE,
                                          !.feedback = "WRONG!",
                                          !.guessResult = <<"incorrect">>,
                                          !.currentStreak = 0]
            /\ last' = Call("makeGuess", NULL, NULL, "incorrect")
    /\ UNCHANGED <<mathGame, priceGame>>

\* nextPet() on the component state g
nextPetOn(g, seed) ==
    LET skipped == IF ~g.hasGuessed
                   THEN [g EXCEPT !.currentStreak = 0,
                                  !.feedback = "Skipped!",
                                  !.guessResult = <<"skipped">>]
                   ELSE g
        moved == [skipped EXCEPT !.currentPetIndex = skipped.currentPetIndex + 1]
        hasBoard == /\ moved.currentBoardIndex < Len(moved.gameBoards)
                    /\ At(moved.gameBoards, moved.currentBoardIndex).game_board # NULL
        maxPets == Len(At(moved.gameBoards, moved.currentBoardIndex).game_board[1])
        turned == [moved EXCEPT !.currentPetIndex = 0,
                                !.currentBoardIndex = moved.currentBoardIndex + 1]
    IN  IF ~hasBoard THEN fetchGameBoardsOn(moved)
        ELSE IF moved.currentPetIndex >= maxPets
        THEN (IF turned.currentBoardIndex >= Len(turned.gameBoards)
              THEN fetchGameBoardsOn(turned)
              ELSE loadCurrentPet(turned, seed))
        ELSE loadCurrentPet(moved, seed)

\* a click on the Next/Skip button, which is always enabled
nextPet(seed) ==
    /\ last.op # "data"
    /\ petGame.pending < MaxPending
    /\ petGame.currentPetIndex < MaxPetIndex
    /\ petGame' = nextPetOn(petGame, seed)
    /\ last' = Call("nextPet", NULL, NULL,
                    IF petGame.hasGuessed THEN "next" ELSE "skip")
    /\ UNCHANGED <<mathGame, priceGame>>

\* The component mounted by its route: the endpoint answers in any way and
\* the buttons are clicked in any order.
NextPet ==
    \/ fetchGameBoards
    \/ \E r \in PetResponses, seed \in Seeds : fetchGameBoardsSettled(r, seed)
    \/ \E name \in Range(petGame.nameOptions) : makeGuess(name)
    \/ \E seed \in Seeds : nextPet(seed)

SpecPet == Init /\ [][NextPet]_vars

\* every call of fetchGameBoards in flight is answered
FairPet ==
    SpecPet /\ WF_vars(\E r \in PetResponses, seed \in Seeds : fetchGameBoardsSettled(r, seed))

----------------------------------------------------------------------------
(* Vocabulary of the properties *)

\* the slots (1-based) that hold a card
Filled(selection) == {i \in 1..Len(selection) : selection[i] # NULL}

\* the id of the card a filled slot holds
IdOf(slot) == Catalogue[slot[1]].id

IsBlank(term) == term.type = "blank"

\* the stat required by slot i (1-based): that of the i-th blank of the equation
StatOfSlot(i) == SelectSeq(equationStructure, IsBlank)[i].stat

\* the 0-based index of the first empty slot; defined when a slot is empty
LowestEmpty(selection) ==
    CHOOSE i \in 0..(Len(selection) - 1) :
        /\ At(selection, i) = NULL
        /\ \A j \in 0..(i - 1) : At(selection, j) # NULL

\* the index of a clearSelection call is a slot of the selection
InRange(index, selection) == index >= 0 /\ index < Len(selection)

----------------------------------------------------------------------------
(* Properties of the selection state *)

\* C1: whatever cards of cardPool are passed to selectCard and whatever
\* indexes to clearSelection, no card (by id) is held in two slots at once.
C1_NoCardInTwoSlots ==
    \A i, j \in Filled(userSelection) :
        i # j => IdOf(userSelection[i]) # IdOf(userSelection[j])

\* C2: availableCardPool is the cards of cardPool that occupy no slot, in
\* cardPool order, and their number is the pool's length minus the number of
\* filled slots.
C2_AvailableIsPoolMinusOccupied ==
    LET occupied == {IdOf(userSelection[i]) : i \in Filled(userSelection)}
        inNoSlot(card) == Catalogue[card].id \notin occupied
    IN  /\ availableCardPool = SelectSeq(cardPool, inNoSlot)
        /\ Len(availableCardPool) = Len(cardPool) - Cardinality(Filled(userSelection))

\* C3: every filled slot holds a card whose value for the stat of that
\* slot's blank is not null.
C3_FilledSlotsResolve ==
    \A i \in Filled(userSelection) :
        getStatValue(userSelection[i], StatOfSlot(i)) # NULL

\* C3 witness: a card was assigned to a slot for whose stat some card of the
\* pool resolves to null.
C3_Witness ==
    /\ last.op = "selectCard"
    /\ last.outcome = "assigned"
    /\ \E card \in Range(cardPool) :
           getStatValue(<<card>>, StatOfSlot(last.index[1] + 1)) = NULL

\* C4: a rejected selectCard(card) leaves userSelection, availableCardPool,
\* calculatedResult and calculationError as they were, and a card that was
\* available stays available.
C4_RejectionMutatesNothing ==
    [][(last'.op = "selectCard" /\ last'.outcome = "rejected") =>
          \E before \in {availableCardPool}, after \in {availableCardPool'} :
              /\ userSelection' = userSelection
              /\ after = before
              /\ calculatedResult' = calculatedResult
              /\ calculationError' = calculationError
              /\ (last'.card[1] \in Range(before) => last'.card[1] \in Range(after))]_vars

\* C4 witness: an available card was rejected for the first empty slot while
\* another slot held a card.
C4_Witness ==
    /\ last.op = "selectCard"
    /\ last.outcome = "rejected"
    /\ selectionErrorIndex = last.index
    /\ last.card[1] \in Range(availableCardPool)
    /\ Filled(userSelection) # {}

\* C5: a selectCard(card) that assigns writes the card into the lowest-index
\* empty slot and leaves every other slot as it was.
C5_AssignFillsLowestEmpty ==
    [][(last'.op = "selectCard" /\ last'.outcome = "assigned") =>
          /\ \E i \in 1..Len(userSelection) : userSelection[i] = NULL
          /\ last'.index = <<LowestEmpty(userSelection)>>
          /\ userSelection' =
                [userSelection EXCEPT ![LowestEmpty(userSelection) + 1] = last'.card]]_vars

\* C5 witness: a card was assigned to a slot that lies before a filled slot
\* and before an empty one.
C5_Witness ==
    /\ last.op = "selectCard"
    /\ last.outcome = "assigned"
    /\ \E i, j \in 1..Len(userSelection) :
           /\ i > last.index[1] + 1 /\ userSelection[i] # NULL
           /\ j > last.index[1] + 1 /\ userSelection[j] = NULL

\* C6: selectCard(card) with every slot filled leaves userSelection,
\* calculatedResult and calculationError as they were.
C6_FullSelectIsNoOp ==
    [][(last'.op = "selectCard" /\ last'.outcome = "full") =>
          UNCHANGED <<userSelection, calculatedResult, calculationError>>]_vars

\* the value calculateResultHandler computes for the current selection:
\* NULL when it fails, else << rounded result >>
CurrentValue ==
    LET expression == expressionOf(equationStructure, userSelection)
    IN  IF expression = NULL \/ ~evaluate(expression[1]).fin THEN NULL
        ELSE <<MathRound(evaluate(expression[1]))>>

\* C7: a non-null calculatedResult is the rounded value of the current
\* selection, which is complete; a selectCard or clearSelection that changes
\* userSelection leaves calculatedResult null; and an in-range clearSelection
\* after an evaluation leaves an incomplete selection and no result.
C7_ResultIsOfCurrentSelection ==
    /\ [](calculatedResult # NULL =>
             isSelectionComplete /\ calculatedResult = CurrentValue)
    /\ [][/\ (last'.op \in {"selectCard", "clearSelection"}
                 /\ userSelection' # userSelection) => calculatedResult' = NULL
          /\ (calculatedResult # NULL /\ last'.op = "clearSelection"
                 /\ InRange(last'.index[1], userSelection))
                 => (~isSelectionComplete' /\ calculatedResult' = NULL)]_vars

\* C7 witness: an evaluation of a complete selection has set a result that
\* differs from the target.
C7_Witness ==
    /\ last.op = "calculateResultHandler"
    /\ calculatedResult # NULL
    /\ calculatedResult # <<targetNumber>>
    /\ isSelectionComplete

\* C8: clearSelection(i) with an index that is no slot of userSelection ends
\* with an IndexOutOfRange failure instead of returning.
C8_OutOfRangeClearFails ==
    (last.op = "clearSelection" /\ ~InRange(last.index[1], userSelection))
        => last.outcome = "IndexOutOfRange"

\* C9: clearSelection(i) on a slot that holds a card empties that slot only,
\* and the card it held is listed in availableCardPool afterwards.
C9_ClearReturnsCard ==
    [][(last'.op = "clearSelection" /\ InRange(last'.index[1], userSelection)
           /\ At(userSelection, last'.index[1]) # NULL) =>
          /\ userSelection' = [userSelection EXCEPT ![last'.index[1] + 1] = NULL]
          /\ At(userSelection, last'.index[1])[1] \in Range(availableCardPool')]_vars

\* C10 as stated: clearSelection(i) on an empty in-range slot leaves
\* userSelection, calculatedResult, calculationError, selectionError and
\* selectionErrorIndex as they were.
C10_ClearEmptyIsNoOp ==
    [][(last'.op = "clearSelection" /\ InRange(last'.index[1], userSelection)
           /\ At(userSelection, last'.index[1]) = NULL) =>
          UNCHANGED <<userSelection, report>>]_vars

\* C10 amended: clearSelection(i) on an empty in-range slot leaves
\* userSelection, calculatedResult and calculationError as they were and
\* resets selectionError and selectionErrorIndex to null.
C10_ClearEmptyResetsErrorsOnly ==
    [][(last'.op = "clearSelection" /\ InRange(last'.index[1], userSelection)
           /\ At(userSelection, last'.index[1]) = NULL) =>
          /\ UNCHANGED <<userSelection, calculatedResult, calculationError>>
          /\ selectionError' = NULL
          /\ selectionErrorIndex' = NULL]_vars

\* C10 witness: an empty slot was cleared while other slots held cards.
C10_Witness ==
    /\ last.op = "clearSelection"
    /\ InRange(last.index[1], userSelection)
    /\ last.card = NULL
    /\ Filled(userSelection) # {}
    /\ selectionError = NULL

----------------------------------------------------------------------------
(* Properties of the evaluation *)

\* some slot of the selection is empty
HasEmptySlot(selection) == \E i \in 1..Len(selection) : selection[i] = NULL

\* C11: calculateResultHandler called while a slot is empty is refused: it
\* leaves calculatedResult and calculationError null and every field of the
\* component as it was.
C11_IncompleteEvaluationRefused ==
    [][(last'.op = "calculateResultHandler" /\ HasEmptySlot(userSelection)) =>
          /\ last'.outcome = "refused"
          /\ calculatedResult' = NULL
          /\ calculationError' = NULL
          /\ UNCHANGED <<loading, error, allCards, round, report, fetching>>]_vars

\* C11 witness: the call was refused with some slots filled, one empty and a
\* rejection still reported.
C11_Witness ==
    /\ last.op = "calculateResultHandler"
    /\ last.outcome = "refused"
    /\ Filled(userSelection) # {}
    /\ HasEmptySlot(userSelection)
    /\ selectionError # NULL

\* The grammar of infix arithmetic over the tokens e[1..j], j the position of
\* a number:   sum ::= sum (+|-) product | product
\*             product ::= product (*|/) number | number
\* ProductStart(e, j) is where the product that ends at j starts.
RECURSIVE ProductStart(_, _)
ProductStart(e, j) ==
    IF j > 1 /\ e[j - 1].o \in {"*", "/"} THEN ProductStart(e, j - 2) ELSE j

RECURSIVE ProductValue(_, _, _)
ProductValue(e, i, j) ==
    IF j = i THEN e[i].n
    ELSE IF e[j - 1].o = "*"
         THEN Mul(ProductValue(e, i, j - 2), e[j].n)
         ELSE Div(ProductValue(e, i, j - 2), e[j].n)

RECURSIVE SumValue(_, _)
SumValue(e, j) ==
    LET i == ProductStart(e, j)
    IN  IF i = 1 THEN ProductValue(e, 1, j)
        ELSE IF e[i - 1].o = "+"
             THEN Add(SumValue(e, i - 2), ProductValue(e, i, j))
             ELSE Add(SumValue(e, i - 2), Neg(ProductValue(e, i, j)))

\* the template over the stat values of the selected cards, as tokens; defined
\* when every slot holds a card that resolves
Tokens == expressionOf(equationStructure, userSelection)[1]

\* the template read as a standard infix expression
StandardValue == SumValue(Tokens, Len(Tokens))

\* the template folded strictly from left to right
SequentialValue == InfixSequential(Tokens, 2, Whole(0), Tokens[1].n)

\* calculateResultHandler has just run on a complete selection of resolving cards
Evaluated ==
    /\ last.op = "calculateResultHandler"
    /\ last.outcome # "refused"
    /\ expressionOf(equationStructure, userSelection) # NULL

\* C12: after calculateResultHandler on a complete selection, calculatedResult
\* is the rounded value of the template read as standard infix arithmetic
\* (* and / before + and -, equal precedence from left to right), and is null
\* when that value is not finite.
C12_StandardPrecedence ==
    Evaluated =>
        calculatedResult = IF StandardValue.fin THEN <<MathRound(StandardValue)>>
                           ELSE NULL

\* C12 witness: an evaluation gave a result that differs from the rounded
\* left-to-right fold of the same template.
C12_Witness ==
    /\ Evaluated
    /\ calculatedResult # NULL
    /\ SequentialValue.fin
    /\ calculatedResult # <<MathRound(SequentialValue)>>

\* a division of the template has a divisor that resolves to zero
DividesByZero ==
    \E i \in 1..Len(Tokens) : Tokens[i].o = "/" /\ Tokens[i + 1].n = Whole(0)

\* C13: when the complete selection divides by zero, or its value is
\* otherwise not finite, calculateResultHandler ends with calculationError
\* set and calculatedResult null, and no score paragraph is rendered.
C13_NonFiniteGivesErrorAndNoScore ==
    (Evaluated /\ (DividesByZero \/ ~StandardValue.fin)) =>
        /\ last.outcome = "caught"
        /\ calculationError # NULL
        /\ calculatedResult = NULL
        /\ scoreParagraph = NULL

\* C13 witness: an evaluation of a template whose division has the divisor
\* zero was caught.
C13_Witness ==
    /\ Evaluated
    /\ DividesByZero
    /\ last.outcome = "caught"
    /\ calculationError = <<"Calculation resulted in a non-finite number">>

\* the integer nearest to the finite fraction x, a half rounded away from zero
RoundHalfAwayFromZero(x) ==
    IF x.n >= 0 THEN (2 * x.n + x.d) \div (2 * x.d)
    ELSE -((2 * (-x.n) + x.d) \div (2 * x.d))

\* C14: after a successful evaluation calculatedResult is the integer nearest
\* to the raw value, and a raw value halfway between two integers is rounded
\* away from zero (-2.5 gives -3, 2.5 gives 3).
C14_RoundsHalfAwayFromZero ==
    (Evaluated /\ last.outcome = "return") =>
        calculatedResult = <<RoundHalfAwayFromZero(StandardValue)>>

----------------------------------------------------------------------------
(* Properties of the score *)

\* the distance between the target and a result
Distance(target, result) == IF target >= result THEN target - result ELSE result - target

\* C15: after a successful evaluation the score paragraph is rendered; it
\* flags an exact match iff the distance between targetNumber and
\* calculatedResult is 0, and otherwise shows the result with that distance
\* as its difference.
C15_ScoreIsDistanceToTarget ==
    (Evaluated /\ last.outcome = "return") =>
        LET distance == Distance(targetNumber, calculatedResult[1])
        IN  /\ scoreParagraph # NULL
            /\ scoreParagraph[1].text = "Perfect Match!" <=> distance = 0
            /\ distance # 0 =>
                   /\ scoreParagraph[1].text = "Result"
                   /\ scoreParagraph[1].result = calculatedResult
                   /\ scoreParagraph[1].difference = <<distance>>

\* C15 witness: an evaluation gave exactly the target.
C15_Witness ==
    /\ Evaluated
    /\ calculatedResult = <<targetNumber>>
    /\ scoreParagraph # NULL

----------------------------------------------------------------------------
(* Properties of the generated round *)

\* setupNewGame has just built a round
RoundBuilt ==
    \/ last.op = "setupNewGame" /\ error = NULL
    \/ last.op = "initializeGame" /\ last.outcome = "return"

\* the number of blanks of an equation
BlankCount(eq) == Cardinality({j \in 1..Len(eq) : eq[j].type = "blank"})

\* C16: every equationStructure built by setupNewGame has an odd number of
\* terms, blanks at the odd positions and operators at the even ones (so the
\* first and the last term are blanks), between 2 and 5 blanks, blank stats
\* among cmc, power, toughness and operators among + - * /.
C16_TemplateWellFormed ==
    RoundBuilt =>
        /\ Len(equationStructure) % 2 = 1
        /\ \A j \in 1..Len(equationStructure) :
               IF j % 2 = 1
               THEN /\ equationStructure[j].type = "blank"
                    /\ equationStructure[j].stat \in {"cmc", "power", "toughness"}
               ELSE /\ equationStructure[j].type = "operator"
                    /\ equationStructure[j].value \in {"+", "-", "*", "/"}
        /\ BlankCount(equationStructure) \in 2..5

\* C16 witness: a round was built with five blanks and all four operators.
C16_Witness ==
    /\ RoundBuilt
    /\ BlankCount(equationStructure) = 5
    /\ {equationStructure[j].value : j \in {2, 4, 6, 8}} = {"+", "-", "*", "/"}

\* C17: selectCard, clearSelection and calculateResultHandler leave
\* equationStructure, targetNumber, cardPool and allCards as they were; a step
\* that changes one of them is a setupNewGame or an initializeGame.
C17_RoundDataFrame ==
    [][/\ last'.op \in {"selectCard", "clearSelection", "calculateResultHandler"}
            => UNCHANGED <<equationStructure, targetNumber, cardPool, allCards>>
       /\ <<equationStructure, targetNumber, cardPool, allCards>>'
               # <<equationStructure, targetNumber, cardPool, allCards>>
            => last'.op \in {"setupNewGame", "initializeGame"}]_vars

\* C17 witness: a round in which cards were selected and evaluated and a slot
\* was then cleared, one card staying selected.
C17_Witness ==
    /\ last.op = "clearSelection"
    /\ last.card # NULL
    /\ Cardinality(Filled(userSelection)) = Len(userSelection) - 1
    /\ Len(equationStructure) > 3
    /\ Len(cardPool) = PoolSize

----------------------------------------------------------------------------
(* Round trip and repetition *)

\* the ids of the cards a selection holds
IdsIn(selection) == {IdOf(selection[i]) : i \in Filled(selection)}

\* C18: when selectCard(card) assigns the card to a slot, clearSelection of
\* that slot can be called next and gives back the userSelection, and with it
\* the availableCardPool, from before the selectCard.
C18_SelectThenClearRestores ==
    [][(last'.op = "selectCard" /\ last'.outcome = "assigned") =>
          \E cleared \in {selectionCleared(userSelection', last'.index[1])} :
              /\ GameShown'
              /\ cleared = userSelection
              /\ withoutIds(cardPool', IdsIn(cleared)) = availableCardPool]_vars

\* C18 witness: a card was assigned to a slot after the first one, a later
\* slot being empty, and clearing that slot leaves the earlier cards selected.
C18_Witness ==
    /\ last.op = "selectCard"
    /\ last.outcome = "assigned"
    /\ last.index[1] >= 1
    /\ HasEmptySlot(userSelection)
    /\ Filled(selectionCleared(userSelection, last.index[1])) = 1..last.index[1]

\* C19: calculateResultHandler called again right after a call on a complete
\* selection, nothing having changed in between, leaves calculatedResult and
\* calculationError as the first call left them.
C19_EvaluationIdempotent ==
    [][(last.op = "calculateResultHandler" /\ last.outcome # "refused"
           /\ last'.op = "calculateResultHandler") =>
          /\ calculatedResult' = calculatedResult
          /\ calculationError' = calculationError
          /\ last'.outcome = last.outcome]_vars

\* C19 witness: an evaluation of a complete selection has returned a non-zero
\* result while the game area is shown, so the handler can be called again.
C19_Witness ==
    /\ last.op = "calculateResultHandler"
    /\ last.outcome = "return"
    /\ calculatedResult \notin {NULL, <<0>>}
    /\ GameShown
    /\ isSelectionComplete

\* C20: a step in which setupNewGame builds a round, whatever the round
\* before it held, leaves userSelection with one null slot for each blank of
\* the new equationStructure, the four report fields null, and
\* availableCardPool equal to the new cardPool.
C20_NewRoundStartsEmpty ==
    [][RoundBuilt' =>
          /\ Len(userSelection') = BlankCount(equationStructure')
          /\ \A i \in 1..Len(userSelection') : userSelection'[i] = NULL
          /\ calculatedResult' = NULL
          /\ calculationError' = NULL
          /\ selectionError' = NULL
          /\ selectionErrorIndex' = NULL
          /\ availableCardPool' = cardPool'
          /\ Len(cardPool') = PoolSize]_vars

\* C20 witness: New Game has built a round with blanks and a full pool.
C20_Witness ==
    /\ last.op = "setupNewGame"
    /\ GameShown
    /\ Len(userSelection) >= 2
    /\ Len(userSelection) = BlankCount(equationStructure)
    /\ availableCardPool = cardPool

----------------------------------------------------------------------------
(* Properties of the initialisation *)

\* no round: the values the catch of initializeGame leaves
NoRound ==
    /\ cardPool = << >>
    /\ equationStructure = << >>
    /\ userSelection = << >>
    /\ targetNumber = 0

\* C21: when initializeGame or setupNewGame ends with fewer than 10 usable
\* cards loaded, error is set and the error branch with Retry is shown;
\* initializeGame leaves no round and setupNewGame leaves the round as it
\* was, and no fetch is under way.
C21_TooFewCardsFailExplicitly ==
    [][(last'.op \in {"initializeGame", "setupNewGame"} /\ last'.outcome # "await"
           /\ Len(allCards') < MinCards) =>
          /\ error' # NULL
          /\ ErrorShown'
          /\ ~fetching'
          /\ last'.op = "initializeGame" => NoRound'
          /\ last'.op = "setupNewGame" => UNCHANGED round]_vars

\* C21 witness: the payload had ten cards of which nine were usable, and
\* initializeGame ended in the error about the number of cards.
C21_Witness ==
    /\ last.op = "initializeGame"
    /\ last.outcome = "caught"
    /\ Len(allCards) = MinCards - 1
    /\ error = <<"Need at least 10 cards with usable stats.">>
    /\ NoRound

\* initializeGame has ended in the error of a failed fetch: the network
\* error, the HTTP error or the payload that is no array
FetchFailed ==
    /\ last.op = "initializeGame"
    /\ last.outcome = "caught"
    /\ error \in {<<"Failed to fetch">>, <<"HTTP error!">>,
                  <<"Invalid data received from daily subset endpoint.">>}

\* C22: after a failed fetch loading is false, the error branch is shown,
\* allCards, cardPool, equationStructure and userSelection are empty and no
\* fetch is under way; a fetch starts only in an initializeGame called by
\* mounted() or by the Retry button of the error branch.
C22_FetchFailureLeavesNothing ==
    /\ [](FetchFailed =>
             /\ ~loading
             /\ ErrorShown
             /\ allCards = << >>
             /\ cardPool = << >>
             /\ equationStructure = << >>
             /\ userSelection = << >>
             /\ ~fetching)
    /\ [][(fetching' /\ ~fetching) =>
             /\ last'.op = "initializeGame"
             /\ last'.outcome = "await"
             /\ last.op = "data" \/ ErrorShown]_vars

\* C22 witness: initializeGame ended in the HTTP error.
C22_Witness ==
    /\ FetchFailed
    /\ error = <<"HTTP error!">>
    /\ allCards = << >>
    /\ ~loading

\* initializeGame has run to its end
Initialized == last.op = "initializeGame" /\ last.outcome # "await"

\* a freshly generated round: a full pool, a template and one empty slot a blank
FreshRound ==
    /\ Len(cardPool) = PoolSize
    /\ equationStructure # << >>
    /\ Len(userSelection) = BlankCount(equationStructure)
    /\ Filled(userSelection) = {}
    /\ targetNumber # 0

\* C23: when the fetch of an initializeGame settles, loading eventually is
\* false; and initializeGame ends either with error null and a freshly
\* generated round or with error set and no round, never in both and never
\* with loading true.
C23_InitializationSettles ==
    /\ fetching ~> ~loading
    /\ [](Initialized =>
             /\ ~loading
             /\ \/ error = NULL /\ FreshRound /\ ~NoRound
                \/ error # NULL /\ NoRound /\ ~FreshRound)

\* C23 witness: initializeGame has ended with a round whose template has the
\* most blanks.
C23_Witness ==
    /\ Initialized
    /\ ~loading
    /\ error = NULL
    /\ FreshRound
    /\ Len(userSelection) = BlankBase + BlankSpan - 1

----------------------------------------------------------------------------
(* Properties of the stat values *)

\* card[stat] for the card of a call, undefined for no card
AttributeOf(card, stat) ==
    IF card = NULL THEN Undefined ELSE Attribute(Catalogue[card[1]], stat)

\* the attribute is a finite number or a non-empty string of decimal digits
PlainFinite(value) ==
    \/ value.t = "number" /\ value.n.fin
    \/ /\ value.t = "string"
       /\ value.s # << >>
       /\ \A i \in 1..Len(value.s) :
              value.s[i] \in {"0", "1", "2", "3", "4", "5", "6", "7", "8", "9"}

\* C24: getStatValue(card, stat) returns a number exactly when the card is
\* given and card[stat] is a finite number or a string of decimal digits, the
\* number it returns is finite, and in every other case (no card, no such
\* attribute, '*', 'X', a non-finite number, any other value) it returns null.
C24_StatValueOnlyPlainFinite ==
    last.op = "getStatValue" =>
        /\ last.result # NULL <=> PlainFinite(AttributeOf(last.card, last.stat))
        /\ last.result # NULL => last.result[1].fin

----------------------------------------------------------------------------
(* Properties of the card pool *)

\* the positions of arr at which the elements of sample stand, arr having no
\* element twice
PositionsOf(sample, arr) ==
    {i \in 1..Len(arr) : \E j \in 1..Len(sample) : sample[j] = arr[i]}

\* C25: the cardPool that setupNewGame takes with getRandomSample(allCards, 10)
\* has exactly 10 entries, which stand at 10 distinct positions of allCards,
\* and a setupNewGame leaves allCards as it was.
C25_SampleWithoutReplacement ==
    /\ [](RoundBuilt =>
             /\ Cardinality(Range(allCards)) = Len(allCards)
             /\ Len(cardPool) = 10
             /\ Range(cardPool) \subseteq Range(allCards)
             /\ Cardinality(PositionsOf(cardPool, allCards)) = 10)
    /\ [][last'.op = "setupNewGame" => allCards' = allCards]_vars

\* C25 witness: a round was built whose pool is not the first ten cards of
\* allCards, in their order or in another.
C25_Witness ==
    /\ RoundBuilt
    /\ Len(allCards) > Len(cardPool)
    /\ At(allCards, Len(allCards) - 1) \in Range(cardPool)
    /\ At(cardPool, 0) # At(allCards, 0)

----------------------------------------------------------------------------
(* Properties of the errors of a round *)

\* C26: a calculateResultHandler that ends with calculationError set leaves
\* userSelection as it was, every slot filled, and no result; the game area
\* stays shown with the Calculate button enabled, so clearSelection and
\* calculateResultHandler can be called again; and every evaluation that
\* succeeds leaves calculatedResult set and calculationError null.
C26_FailedEvaluationRecoverable ==
    [][/\ (last'.op = "calculateResultHandler" /\ calculationError' # NULL) =>
             /\ userSelection' = userSelection
             /\ isSelectionComplete'
             /\ Len(userSelection') > 0
             /\ calculatedResult' = NULL
             /\ GameShown'
             /\ ~calculateDisabled'
       /\ (last'.op = "calculateResultHandler" /\ last'.outcome = "return") =>
             /\ calculatedResult' # NULL
             /\ calculationError' = NULL]_vars

\* C26 witness: an evaluation has failed, and putting one card of the pool
\* into one slot gives a selection whose evaluation succeeds.
C26_Witness ==
    /\ last.op = "calculateResultHandler"
    /\ calculationError # NULL
    /\ \E i \in 1..Len(userSelection), card \in Range(cardPool) :
           \E retry \in {expressionOf(equationStructure,
                                      [userSelection EXCEPT ![i] = <<card>>])} :
               retry # NULL /\ evaluate(retry[1]).fin

\* a slot holds a card whose value for the stat of the slot's blank is null
HoldsUnresolved ==
    \E i \in Filled(userSelection) : getStatValue(userSelection[i], StatOfSlot(i)) = NULL

\* C27: calculateResultHandler on a complete selection in which a card no
\* longer has a value for its slot's stat ends with calculationError set and
\* calculatedResult null; and a result it sets is the rounded value of the
\* template over the values the cards have when it is called.
C27_EvaluationReResolves ==
    [][/\ (last'.op = "calculateResultHandler" /\ isSelectionComplete /\ HoldsUnresolved) =>
             /\ last'.outcome = "caught"
             /\ calculationError' # NULL
             /\ calculatedResult' = NULL
       /\ (last'.op = "calculateResultHandler" /\ last'.outcome = "return") =>
             /\ ~HoldsUnresolved
             /\ calculatedResult' = <<MathRound(StandardValue)>>]_vars

\* C27 witness: the evaluation of a complete selection was stopped by a card
\* whose stat had become null after it was assigned.
C27_Witness ==
    /\ last.op = "calculateResultHandler"
    /\ last.outcome = "caught"
    /\ isSelectionComplete
    /\ HoldsUnresolved
    /\ calculationError = <<"Invalid stat value">>
    /\ calculatedResult = NULL

----------------------------------------------------------------------------
(* Properties of the rejection mark *)

\* selectionErrorIndex is null or the index of the first empty slot
MarksFirstEmpty ==
    selectionErrorIndex # NULL =>
        /\ InRange(selectionErrorIndex[1], userSelection)
        /\ At(userSelection, selectionErrorIndex[1]) = NULL
        /\ selectionErrorIndex[1] = LowestEmpty(userSelection)

\* a step that gives selectionErrorIndex a new index is a rejected selectCard
SetOnlyByRejection ==
    (selectionErrorIndex' # NULL /\ selectionErrorIndex' # selectionErrorIndex) =>
        (last'.op = "selectCard" /\ last'.outcome = "rejected")

\* an in-range clearSelection and a setupNewGame leave selectionErrorIndex null
ResetByClearAndNewGame ==
    /\ (last'.op = "clearSelection" /\ InRange(last'.index[1], userSelection)) =>
           selectionErrorIndex' = NULL
    /\ (last'.op = "setupNewGame" \/ RoundBuilt') => selectionErrorIndex' = NULL

\* C28 as stated: selectionErrorIndex is always null or the index of the
\* first empty slot, is set only by a rejected selectCard, and once set is
\* null after the next selectCard, in-range clearSelection or setupNewGame.
C28_ResetByNextSelectCard ==
    /\ []MarksFirstEmpty
    /\ [][/\ SetOnlyByRejection
          /\ ResetByClearAndNewGame
          /\ (last'.op = "selectCard" /\ selectionErrorIndex # NULL) =>
                 selectionErrorIndex' = NULL]_vars

\* C28 amended: selectionErrorIndex is always null or the index of the first
\* empty slot; it is set only by a rejected selectCard, which leaves it at the
\* index of the slot it tried; it is null after every selectCard that is not
\* rejected, every in-range clearSelection and every setupNewGame.
C28_RejectionMarksFirstEmpty ==
    /\ []MarksFirstEmpty
    /\ [][/\ SetOnlyByRejection
          /\ ResetByClearAndNewGame
          /\ (last'.op = "selectCard" /\ last'.outcome = "rejected") =>
                 selectionErrorIndex' = <<LowestEmpty(userSelection)>>
          /\ (last'.op = "selectCard" /\ last'.outcome # "rejected") =>
                 selectionErrorIndex' = NULL]_vars

\* C28 witness: a card was rejected for a slot after the first, which is
\* marked and still empty while the slots before it are filled.
C28_Witness ==
    /\ last.op = "selectCard"
    /\ last.outcome = "rejected"
    /\ selectionErrorIndex # NULL
    /\ selectionErrorIndex[1] >= 1
    /\ At(userSelection, selectionErrorIndex[1]) = NULL
    /\ \A j \in 0..(selectionErrorIndex[1] - 1) : At(userSelection, j) # NULL

----------------------------------------------------------------------------
(* Properties of the loaded cards and of the live round *)

\* the card has a value for cmc, power or toughness
Usable(card) ==
    \E stat \in {"cmc", "power", "toughness"} : getStatValue(<<card>>, stat) # NULL

\* C29: every card of allCards and of cardPool has a value for at least one
\* of cmc, power and toughness, every card of cardPool is a card of allCards,
\* and a cardPool exists only when allCards, which holds the usable cards
\* alone, has at least 10 cards.
C29_OnlyUsableCardsKept ==
    /\ \A card \in Range(allCards) \cup Range(cardPool) : Usable(card)
    /\ Range(cardPool) \subseteq Range(allCards)
    /\ Len(cardPool) > 0 => Len(allCards) >= MinCards

\* C29 witness: a round was built from a payload that lost a card to the
\* filter, and its pool has a card for which some stat is null.
C29_Witness ==
    /\ last.op = "initializeGame"
    /\ last.outcome = "return"
    /\ Len(allCards) = Len(FullList) - 1
    /\ Len(cardPool) = PoolSize
    /\ \E card \in Range(cardPool) :
           \E stat \in {"cmc", "power", "toughness"} : getStatValue(<<card>>, stat) = NULL

\* C30: whenever the game area is shown, cardPool has exactly 10 cards,
\* userSelection has one slot for each blank of equationStructure, between 2
\* and 5 slots, and targetNumber is an integer from 101 to 1000.
C30_ShownRoundWellFormed ==
    GameShown =>
        /\ Len(cardPool) = 10
        /\ Len(userSelection) = BlankCount(equationStructure)
        /\ Len(userSelection) \in 2..5
        /\ targetNumber \in 101..1000

\* C30 witness: the game area is shown after the evaluation of a round of
\* two blanks with both slots filled.
C30_Witness ==
    /\ GameShown
    /\ last.op = "calculateResultHandler"
    /\ last.outcome = "return"
    /\ Len(allCards) > Len(cardPool)
    /\ Len(userSelection) = 2
    /\ Filled(userSelection) = 1..Len(userSelection)

----------------------------------------------------------------------------
(* Properties over every payload *)

\* C31: whatever array the endpoint answers with, no two entries of cardPool
\* have the same id.
C31_PoolIdsDistinct ==
    \A i, j \in 1..Len(cardPool) :
        i # j => Catalogue[cardPool[i]].id # Catalogue[cardPool[j]].id

\* the stat of each blank resolves for some card of the pool
EveryBlankHasACard ==
    \A i \in 1..Len(userSelection) :
        \E card \in Range(cardPool) : getStatValue(<<card>>, StatOfSlot(i)) # NULL

\* C34: in every state of a round the selection can still be completed by
\* calls of selectCard and clearSelection, for which every blank of the
\* template must have a card of the pool whose value for its stat is not null.
C34_RoundCanBeCompleted == GameShown => EveryBlankHasACard

----------------------------------------------------------------------------
(* Properties of the dispatch of handlers *)

\* C32: while the fetch of initializeGame is in flight the loading branch
\* alone is rendered and no round exists, and the only step taken is the
\* continuation of that initializeGame: no selectCard, clearSelection,
\* calculateResultHandler, setupNewGame or second initializeGame comes between
\* the start of the fetch and its completion, which overwrites no round.
C32_FetchExcludesHandlers ==
    /\ [](fetching => loading /\ ~GameShown /\ ~ErrorShown /\ NoRound)
    /\ [][fetching =>
            /\ last'.op = "initializeGame"
            /\ last'.outcome # "await"
            /\ ~fetching'
            /\ ~loading']_vars

\* C32 witness: Retry has started a second fetch after a payload with too
\* few usable cards, whose cards are still in allCards.
C32_Witness ==
    /\ fetching
    /\ loading
    /\ last.op = "initializeGame"
    /\ last.outcome = "await"
    /\ Len(allCards) > 0

\* C33: when selectCard is called only with cards of availableCardPool and
\* the ids of the pool are distinct, no card is held by two slots and, in
\* every state with a round, the cards of availableCardPool and the filled
\* slots are 10 together (and as many as cardPool has in every state).
C33_AvailableCardsOnly ==
    /\ C31_PoolIdsDistinct
    /\ \A i, j \in Filled(userSelection) :
           i # j => IdOf(userSelection[i]) # IdOf(userSelection[j])
    /\ Len(availableCardPool) + Cardinality(Filled(userSelection)) = Len(cardPool)
    /\ GameShown => Len(availableCardPool) + Cardinality(Filled(userSelection)) = 10

\* C33 witness: both slots of a round of two blanks were filled from the
\* Available list, which has eight cards left.
C33_Witness ==
    /\ GameShown
    /\ last.op = "selectCard"
    /\ last.outcome = "assigned"
    /\ isSelectionComplete
    /\ Cardinality(Filled(userSelection)) = 2
    /\ Len(availableCardPool) = 8

----------------------------------------------------------------------------
(* Properties of the price game *)

\* the template's v-else branch of MagicPriceGuess.vue
PriceGameAreaShown == priceGame.gameState \notin {"loading", "error"}

RECURSIVE SumOfScores(_)
SumOfScores(guesses) ==
    IF Len(guesses) = 0 THEN Whole(0)
    ELSE Add(SumOfScores(SubSeq(guesses, 1, Len(guesses) - 1)),
             guesses[Len(guesses)].score)

\* C35: a game of MagicPriceGuess goes guessing, result, guessing, ...,
\* result, gameOver. submitGuess changes the component only in 'guessing' and
\* leads to 'result'; nextRound changes it only in 'result' and leads to
\* 'guessing', or to 'gameOver' when five guesses have been submitted; the
\* state is 'gameOver' only with exactly TOTAL_ROUNDS submitted guesses, and
\* 'guessing' and 'result' of round r come with r and r + 1 of them;
\* startNewGame leads to 'guessing' in round 0 with none.
C35_GuessResultGameOver ==
    /\ [](/\ priceGame.gameState = "guessing" =>
                /\ Len(priceGame.submitted) = priceGame.currentRound
                /\ priceGame.currentRound < TOTAL_ROUNDS
          /\ priceGame.gameState = "result" =>
                /\ Len(priceGame.submitted) = priceGame.currentRound + 1
                /\ priceGame.currentRound < TOTAL_ROUNDS
          /\ priceGame.gameState = "gameOver" =>
                Len(priceGame.submitted) = TOTAL_ROUNDS)
    /\ [][/\ last'.op = "submitGuess" =>
                IF priceGame.gameState = "guessing"
                THEN priceGame'.gameState = "result"
                ELSE priceGame' = priceGame
          /\ last'.op = "nextRound" =>
                IF priceGame.gameState = "result"
                THEN priceGame'.gameState =
                        (IF Len(priceGame.submitted) = TOTAL_ROUNDS
                         THEN "gameOver" ELSE "guessing")
                ELSE priceGame' = priceGame
          /\ priceGame.gameState = "guessing" /\ priceGame'.gameState # "guessing" =>
                last'.op = "submitGuess"
          /\ priceGame.gameState = "result" /\ priceGame'.gameState # "result" =>
                last'.op = "nextRound"
          /\ priceGame'.gameState = "gameOver" /\ priceGame.gameState # "gameOver" =>
                last'.op = "nextRound"
          /\ last'.op = "startNewGame" =>
                /\ priceGame.gameState = "gameOver"
                /\ priceGame'.gameState = "guessing"
                /\ priceGame'.currentRound = 0
                /\ priceGame'.submitted = << >>]_vars

\* nextRound has ended a game after the fifth submitted guess
C35_Witness ==
    /\ last.op = "nextRound"
    /\ last.outcome = "advanced"
    /\ priceGame.gameState = "gameOver"
    /\ Len(priceGame.submitted) = TOTAL_ROUNDS

C37_DisplayedRoundInRange ==
    PriceGameAreaShown =>
        /\ priceGame.currentRound + 1 \in 1..priceGame.totalRounds
        /\ priceGame.gameState \in {"guessing", "result"} =>
              /\ priceGame.currentRound < Len(priceGame.gameCards)
              /\ priceGame.currentGameCard =
                    <<At(priceGame.gameCards, priceGame.currentRound)>>

----------------------------------------------------------------------------
(* Properties of the pet name game *)

\* loadCurrentPet has shown a pet and no fetch hides it
PetShown == ~petGame.loading /\ petGame.currentPet # NULL

\* C38: in every state of PetNameGame 0 <= currentStreak <= maxStreak; a
\* correct guess adds 1 to score and to currentStreak; an incorrect guess and
\* a skip (nextPet before a guess) set currentStreak to 0 and leave score and
\* maxStreak as they were; and, the option buttons being disabled after a
\* guess, the score grows by at most 1 for each pet that is shown.
C38_StreakAndScorePerPet ==
    /\ [](/\ 0 <= petGame.currentStreak
          /\ petGame.currentStreak <= petGame.maxStreak
          /\ petGame.gained <= 1)
    /\ [][/\ last'.op = "makeGuess" /\ last'.outcome = "correct" =>
                /\ petGame'.score = petGame.score + 1
                /\ petGame'.currentStreak = petGame.currentStreak + 1
          /\ last'.op = "makeGuess" /\ last'.outcome = "incorrect" =>
                /\ petGame'.currentStreak = 0
                /\ petGame'.score = petGame.score
                /\ petGame'.maxStreak = petGame.maxStreak
          /\ last'.op = "nextPet" /\ last'.outcome = "skip" =>
                /\ petGame'.currentStreak = 0
                /\ petGame'.score = petGame.score
                /\ petGame'.maxStreak = petGame.maxStreak]_vars

\* C39: whenever a pet is shown (loading false and currentPet set),
\* nameOptions holds exactly 4 names that differ from one another, and
\* exactly one of them is currentPet.name, whatever gameBoards holds.
C39_FourDistinctOptions ==
    PetShown =>
        /\ Len(petGame.nameOptions) = 4
        /\ \A i, j \in 1..Len(petGame.nameOptions) :
              i # j => petGame.nameOptions[i] # petGame.nameOptions[j]
        /\ Cardinality({i \in 1..Len(petGame.nameOptions) :
                           petGame.nameOptions[i] = petGame.currentPet[1].name}) = 1

\* a pet is shown whose name is a common pet name, while the boards hold no
\* other name than its own
C39_Witness ==
    /\ PetShown
    /\ last.outcome = "loaded"
    /\ petGame.gameBoards = FewBoards
    /\ getAllPetNames(petGame) = << >>
    /\ petGame.currentPet[1].name \in Range(commonPetNames)

\* C40: every fetchGameBoards in flight is followed by a state with loading
\* false, in which a pet or a message is shown; a response whose boards hold
\* no pet that can be loaded does not keep the component fetching.
C40_FetchEndsLoading == (petGame.pending > 0) ~> ~petGame.loading

====
